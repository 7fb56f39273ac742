------------------------------ MODULE Identity ------------------------------
(***************************************************************************)
(* One field of an instrument's classification, and the issuers of its     *)
(* listings.                                                               *)
(*                                                                         *)
(* Every provenance has a row of its own and the highest rank wins.  A     *)
(* request reads the rows it needs in steps of their own and writes in     *)
(* another: only the columns that it changes with respect to what it read. *)
(***************************************************************************)
EXTENDS Integers, Sequences

CONSTANTS
  Values,         \* of the field
  NoValue,
  Listings,       \* instruments
  Names,          \* legal names of issuers
  NoIssuer,
  Curators,       \* request-serving threads
  MaxIssuers      \* bound on issuers

ASSUME IdentityAssumption ==
  NoValue \notin Values /\ NoIssuer \notin Nat \cup Names /\ MaxIssuers \in Nat

Provenances == {"manual_override", "verified_internal", "provider", "derived"}

VARIABLES
  facts,          \* facts[p]: the row of provenance p, of instrument_classifications
  said,           \* what the requests so far said, by provenance; of an override, or that it was retracted
  issuers,        \* issuers[i]: the legal name of the i-th issuer
  issuerOf,       \* issuerOf[l]: the issuer_id of listing l
  mapped,         \* the company listing l was last asked to be mapped to, NoIssuer if that was lost
  curator,        \* curator[c]: the request of thread c, between its reads and its write
  raced           \* the provenances two requests were at, and the names both found no issuer of

identityVars == <<facts, said, issuers, issuerOf, mapped, curator, raced>>

NoFact == [value |-> NoValue, retracted |-> FALSE]
Rested == [at |-> "rested"]
Busy(c) == curator[c].at # "rested"

IdentityInit ==
  /\ facts = [p \in Provenances |-> NoFact] /\ said = [p \in Provenances |-> NoValue]
  /\ issuers = <<>> /\ issuerOf = [l \in Listings |-> NoIssuer]
  /\ mapped = [l \in Listings |-> NoIssuer]
  /\ curator = [c \in Curators |-> Rested]
  /\ raced = {}

Begins(c, request) == ~Busy(c) /\ curator' = [curator EXCEPT ![c] = request]

-----------------------------------------------------------------------------
(* Classification *)

\* PROVENANCE_RANK
Rank(p) ==
  CASE p = "manual_override" -> 40 [] p = "verified_internal" -> 30 [] p = "provider" -> 20 [] p = "derived" -> 10

\* resolve_classification: the highest rank among the rows that are not retracted.
Standing == {p \in Provenances : facts[p].value # NoValue /\ ~facts[p].retracted}
Resolved ==
  IF Standing = {} THEN NoValue
  ELSE facts[CHOOSE p \in Standing : \A q \in Standing : Rank(q) <= Rank(p)].value

Writing(c) == curator[c].at \in {"recording", "retracting"}

\* Another request is between its read and its write of the row.
RacedFor(p) == {a \in {p} : \E d \in Curators : Writing(d) /\ curator[d].about = a}

\* record_classification reads the row: by a market refresh for the derived
\* rank, by a request for an override.
ReadFact(c, p, value) ==
  /\ p \in {"derived", "manual_override"} /\ value \in Values
  /\ Begins(c, [at |-> "recording", about |-> p, seen |-> facts[p], value |-> value])
  /\ raced' = raced \cup RacedFor(p)
  /\ UNCHANGED <<facts, said, issuers, issuerOf, mapped>>

\* Mutant: an override that was retracted stays so.
UpsertedRetracted(row, seen, value) ==
  [value |-> IF value # seen.value THEN value ELSE row.value, retracted |-> row.retracted]
\* The columns that differ from what was read.
Upserted(row, seen, value) ==
  [value     |-> IF value # seen.value THEN value ELSE row.value,
   retracted |-> IF seen.retracted THEN FALSE ELSE row.retracted]

\* A row that was not there and is by now collides on its unique key.
WriteFact(c) ==
  LET s == curator[c]
      written == s.seen.value = NoValue => facts[s.about].value = NoValue
  IN  /\ s.at = "recording"
      /\ facts' = IF ~written THEN facts
                  ELSE [facts EXCEPT ![s.about] = Upserted(@, s.seen, s.value)]
      /\ said' = IF written THEN [said EXCEPT ![s.about] = s.value] ELSE said
      /\ curator' = [curator EXCEPT ![c] = Rested]
      /\ UNCHANGED <<issuers, issuerOf, mapped, raced>>

\* set_classification_override with retract: refused without an override.
ReadRetraction(c) ==
  /\ facts["manual_override"].value # NoValue
  /\ Begins(c, [at |-> "retracting", about |-> "manual_override", seen |-> facts["manual_override"]])
  /\ raced' = raced \cup RacedFor("manual_override")
  /\ UNCHANGED <<facts, said, issuers, issuerOf, mapped>>

WriteRetraction(c) ==
  /\ curator[c].at = "retracting"
  /\ facts' = IF curator[c].seen.retracted THEN facts
              ELSE [facts EXCEPT !["manual_override"].retracted = TRUE]
  /\ said' = [said EXCEPT !["manual_override"] = NoValue]
  /\ curator' = [curator EXCEPT ![c] = Rested]
  /\ UNCHANGED <<issuers, issuerOf, mapped, raced>>

-----------------------------------------------------------------------------
(* Issuers *)

\* Mutant: no issuer is looked for.
NoneNamed(name) == {NoIssuer}
\* map_issuer: an issuer of the name, any if there are several.
IssuersNamed(name) ==
  LET found == {i \in DOMAIN issuers : issuers[i] = name}
  IN  IF found = {} THEN {NoIssuer} ELSE found

\* A request between the read of the instrument and the write of its issuer_id.
Mapping(c) == curator[c].at \in {"located", "mapping"}
\* It found no issuer of the name, and will add one.
Adding(c) == curator[c].at = "mapping" /\ curator[c].issuer = NoIssuer

MappingRequest(at, l, name, i) ==
  [at |-> at, about |-> name, listing |-> l, seen |-> issuerOf[l], issuer |-> i, overtaken |-> FALSE]

\* map_issuer reads the instrument; by the id of an issuer, which stays there.
ReadInstrument(c, l) ==
  /\ \/ \E name \in Names : Begins(c, MappingRequest("located", l, name, NoIssuer))
     \/ \E i \in DOMAIN issuers : Begins(c, MappingRequest("mapping", l, issuers[i], i))
  /\ UNCHANGED <<facts, said, issuers, issuerOf, mapped, raced>>

\* By name, it looks for an issuer.
ReadIssuer(c) ==
  LET name == curator[c].about
  IN  /\ curator[c].at = "located"
      /\ \E i \in IssuersNamed(name) :
           /\ curator' = [curator EXCEPT ![c].at = "mapping", ![c].issuer = i]
           /\ raced' = raced \cup {a \in {name} : i = NoIssuer /\ \E d \in Curators : Adding(d) /\ curator[d].about = a}
      /\ UNCHANGED <<facts, said, issuers, issuerOf, mapped>>

\* Thread c is done; other requests at the listing have read its row before.
EndsMapping(c) ==
  curator' = [d \in Curators |->
    IF d = c THEN Rested
    ELSE IF Mapping(d) /\ curator[d].listing = curator[c].listing
         THEN [curator[d] EXCEPT !.overtaken = TRUE] ELSE curator[d]]

\* The issuer_id is written if it differs from what was read.
IssuerWritten(row, seen, i) == IF i # seen THEN i ELSE row

\* legal_name has no unique key.
WriteIssuer(c) ==
  LET s == curator[c]
      chosen == IF Adding(c) THEN Len(issuers) + 1 ELSE s.issuer
      lost == s.overtaken /\ chosen = s.seen
  IN  /\ s.at = "mapping" /\ (Adding(c) => Len(issuers) < MaxIssuers)
      /\ issuers' = IF Adding(c) THEN Append(issuers, s.about) ELSE issuers
      /\ issuerOf' = [issuerOf EXCEPT ![s.listing] = IssuerWritten(@, s.seen, chosen)]
      /\ mapped' = [mapped EXCEPT ![s.listing] = IF lost THEN NoIssuer ELSE s.about]
      /\ EndsMapping(c)
      /\ UNCHANGED <<facts, said, raced>>

ClassificationNext ==
  \E c \in Curators :
    \/ \E p \in Provenances, value \in Values : ReadFact(c, p, value)
    \/ WriteFact(c) \/ ReadRetraction(c) \/ WriteRetraction(c)
IssuersNext ==
  \E c \in Curators : (\E l \in Listings : ReadInstrument(c, l)) \/ ReadIssuer(c) \/ WriteIssuer(c)

IdentitySpec == IdentityInit /\ [][ClassificationNext \/ IssuersNext]_identityVars

-----------------------------------------------------------------------------
(* Properties *)

\* The order of overrides, retractions and refreshes does not matter, nor that
\* refreshes overlap the others: an override that stands wins, and once it is
\* retracted the provider's last view is back.  (Unless two requests wrote the
\* same row at a time.)
WinnerIsTheLastWord ==
  raced \cap Provenances = {} =>
    Resolved = IF said["manual_override"] # NoValue THEN said["manual_override"] ELSE said["derived"]

\* Two listings mapped to one company are of one issuer, by name or by id, or the
\* exposure to it does not add up; and a mapping gives the listing an issuer of the
\* company.  However mappings overlap: unless two of them found that a name has no
\* issuer yet, or a mapping back to the issuer that was read was overtaken.
ListingsShareTheIssuer ==
  /\ \A l \in Listings : mapped[l] # NoIssuer => issuers[issuerOf[l]] = mapped[l]
  /\ \A l, m \in Listings :
       (mapped[l] = mapped[m] /\ mapped[l] \notin raced \cup {NoIssuer}) => issuerOf[l] = issuerOf[m]
=============================================================================
