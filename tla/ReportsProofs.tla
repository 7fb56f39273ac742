----------------------------- MODULE ReportsProofs -----------------------------
(***************************************************************************)
(* Proofs about groups, consolidated summaries, value series and the       *)
(* identity of instruments, for any portfolios, lists, transfers, values,  *)
(* listings and number of threads.                                         *)
(*                                                                         *)
(* Groups are proved about alone first; what moves beside them leaves      *)
(* their invariant alone (NavNextIsGroupsNext).  Identity shares nothing   *)
(* with the rest: requests that read and write in steps of their own agree *)
(* with a serial order unless two of them are about one row or one name.   *)
(* What a summary adds up is a sum over currencies, over positions and     *)
(* over portfolios; that these are one sum, and the one that a series of   *)
(* stored snapshots adds up by account, follows from the sums over finite  *)
(* sets of Induction.                                                      *)
(***************************************************************************)
EXTENDS NavSeries, Identity, Induction

-----------------------------------------------------------------------------
(* Groups: the inductive invariant *)

OpenRows == {row \in rows : row.to = NoEnd}

\* No row begins or ends in the future; its keys hold.
TablesOK ==
  /\ moment \in Nat /\ moment >= GroupStart
  /\ existing \subseteq Portfolios /\ group \in BOOLEAN /\ overlapped \in BOOLEAN
  /\ rows \subseteq Member
  /\ \A a, b \in rows : (a.portfolio = b.portfolio /\ a.from = b.from) => a = b
  /\ \A a \in rows :
       a.portfolio \in existing /\ a.from <= moment /\ (a.to = NoEnd \/ a.to <= moment)
  /\ ~group => rows = {}

\* A replacement under way whose group is still the one it read.
Live(e) == Editing(e) /\ ~editor[e].gone

EditorsOK ==
  /\ DOMAIN editor = Editors
  /\ \A e \in Editors : editor[e].at \in {"idle", "editing", "done"}
  /\ \A e \in Editors : Editing(e) =>
       /\ editor[e].now \in Nat /\ editor[e].now <= moment
       /\ editor[e].current \subseteq Member
       /\ "gone" \in DOMAIN editor[e]
  /\ \A e \in Editors : (Live(e) \/ editor[e].at = "done") => group
  /\ \A e, f \in Editors : (e # f /\ Live(e) /\ Live(f)) => overlapped

\* As long as no two replacements overlapped: a portfolio has one open row,
\* what a replacement has read is what is open, but for portfolios deleted
\* since, and what the last one asked for is what is open.
Undisturbed ==
  ~overlapped =>
    /\ \A a, b \in OpenRows : a.portfolio = b.portfolio => a = b
    /\ \A e \in Editors : Live(e) =>
         OpenRows = {row \in editor[e].current : row.portfolio \in existing}
    /\ \A e \in Editors : editor[e].at = "done" =>
         {row.portfolio : row \in OpenRows} = Listed(editor[e].list) \cap existing

GroupsInv == TablesOK /\ EditorsOK /\ Undisturbed

-----------------------------------------------------------------------------
(* Groups: steps *)

LEMMA GroupsInvInit == GroupsInit => GroupsInv
<1> SUFFICES ASSUME GroupsInit PROVE GroupsInv
  OBVIOUS
<1> USE GroupsAssumption DEF GroupsInit
<1>1. TablesOK
  <2>1. moment \in Nat /\ moment >= GroupStart
    OBVIOUS
  <2>2. rows = {} /\ existing = Portfolios /\ group \in BOOLEAN /\ overlapped \in BOOLEAN
    OBVIOUS
  <2> QED
    BY <2>1, <2>2 DEF TablesOK
<1>2. EditorsOK
  BY DEF EditorsOK, Idler, Editing, Live
<1>3. Undisturbed
  BY DEF Undisturbed, OpenRows, Idler, Editing, Live
<1> QED
  BY <1>1, <1>2, <1>3 DEF GroupsInv

\* The writes of a replacement that collide with nothing.
LEMMA RowsReplacedOK ==
  ASSUME GroupsInv, NEW e \in Editors, Editing(e), ~Conflicts(editor[e])
  PROVE  LET s == editor[e] IN
         /\ group /\ ~s.gone
         /\ RowsReplaced(s) \subseteq Member
         /\ \A a, b \in RowsReplaced(s) : (a.portfolio = b.portfolio /\ a.from = b.from) => a = b
         /\ \A a \in RowsReplaced(s) :
              a.portfolio \in existing /\ a.from <= moment /\ (a.to = NoEnd \/ a.to <= moment)
<1> DEFINE s == editor[e]
           Ended(row) == \E c \in Closed(s) : SameRow(row, c)
           Kept(row) == IF Ended(row) THEN [row EXCEPT !.to = s.now] ELSE row
<1>1. group /\ ~s.gone
  BY DEF Conflicts
<1>2. s.now \in Nat /\ s.now <= moment /\ moment \in Nat /\ existing \subseteq Portfolios
  BY DEF GroupsInv, EditorsOK, TablesOK
<1>3. ASSUME NEW row \in rows
      PROVE  /\ row \in Member /\ Kept(row) \in Member
             /\ Kept(row).portfolio = row.portfolio /\ Kept(row).from = row.from
             /\ Kept(row).to \in {row.to, s.now}
             /\ row.portfolio \in existing /\ row.from <= moment /\ (row.to = NoEnd \/ row.to <= moment)
  <2>1. /\ row \in Member /\ row.portfolio \in existing
        /\ row.from <= moment /\ (row.to = NoEnd \/ row.to <= moment)
    BY DEF GroupsInv, TablesOK
  <2> HIDE DEF s, Ended
  <2> QED
    BY <1>2, <2>1 DEF Member
<1>4. ASSUME NEW new \in NewRows(s)
      PROVE  \E i \in Added(s) : new = [portfolio |-> s.list[i], from |-> s.now, to |-> NoEnd]
  BY DEF NewRows
<1>5. ASSUME NEW i \in Added(s)
      PROVE  /\ s.list[i] \in existing
             /\ \A j \in Added(s) : i # j => s.list[i] # s.list[j]
             /\ \A row \in rows : row.portfolio # s.list[i] \/ row.from # s.now
  BY DEF Conflicts
<1>6. ASSUME NEW new \in NewRows(s)
      PROVE  /\ new \in Member /\ new.portfolio \in existing /\ new.from = s.now /\ new.to = NoEnd
             /\ \A row \in rows : row.portfolio # new.portfolio \/ row.from # new.from
             /\ \A other \in NewRows(s) : other.portfolio = new.portfolio => other = new
  <2> HIDE DEF s
  <2>1. PICK i \in Added(s) : new = [portfolio |-> s.list[i], from |-> s.now, to |-> NoEnd]
    BY <1>4
  <2>2. new \in Member /\ new.portfolio = s.list[i] /\ new.from = s.now /\ new.to = NoEnd
    BY <1>2, <1>5, <2>1 DEF Member
  <2>3. ASSUME NEW other \in NewRows(s), other.portfolio = new.portfolio PROVE other = new
    <3>1. PICK j \in Added(s) : other = [portfolio |-> s.list[j], from |-> s.now, to |-> NoEnd]
      BY <1>4
    <3>2. s.list[i] = s.list[j]
      BY <2>1, <2>3, <3>1
    <3> QED
      BY <1>5, <2>1, <3>1, <3>2
  <2> QED
    BY <1>5, <2>2, <2>3
<1>7. RowsReplaced(s) = {Kept(row) : row \in rows} \cup NewRows(s)
  BY DEF RowsReplaced
<1>8. \A a, b \in rows : (a.portfolio = b.portfolio /\ a.from = b.from) => a = b
  BY DEF GroupsInv, TablesOK
<1> HIDE DEF s, Kept
<1>9. ASSUME NEW a \in RowsReplaced(s)
      PROVE  /\ a \in Member /\ a.portfolio \in existing /\ a.from <= moment
             /\ (a.to = NoEnd \/ a.to <= moment)
  <2>1. CASE a \in NewRows(s)
    BY <1>2, <1>6, <2>1
  <2>2. CASE a \in {Kept(row) : row \in rows}
    <3>1. PICK row \in rows : a = Kept(row)
      BY <2>2
    <3> QED
      BY <1>2, <1>3, <3>1
  <2> QED
    BY <1>7, <2>1, <2>2
<1>10. ASSUME NEW a \in RowsReplaced(s), NEW b \in RowsReplaced(s), a.portfolio = b.portfolio, a.from = b.from
       PROVE  a = b
  <2>1. CASE a \in NewRows(s) /\ b \in NewRows(s)
    BY <1>6, <1>10, <2>1
  <2>2. ASSUME NEW row \in rows, NEW new \in NewRows(s)
        PROVE  Kept(row).portfolio # new.portfolio \/ Kept(row).from # new.from
    BY <1>3, <1>6
  <2>3. CASE a \in {Kept(row) : row \in rows} /\ b \in {Kept(row) : row \in rows}
    <3>1. PICK ra \in rows : a = Kept(ra)
      BY <2>3
    <3>2. PICK rb \in rows : b = Kept(rb)
      BY <2>3
    <3>3. ra = rb
      BY <1>3, <1>8, <1>10, <3>1, <3>2
    <3> QED
      BY <3>1, <3>2, <3>3
  <2> QED
    BY <1>7, <1>10, <2>1, <2>2, <2>3
<1> QED
  BY <1>1, <1>9, <1>10 DEF s

\* Of rows that nobody else replaces meanwhile, exactly those asked for are open then.
LEMMA RowsReplacedAreAsked ==
  ASSUME GroupsInv, NEW e \in Editors, Editing(e), ~Conflicts(editor[e]), ~overlapped
  PROVE  LET s == editor[e]
             open == {row \in RowsReplaced(s) : row.to = NoEnd}
         IN  /\ \A a, b \in open : a.portfolio = b.portfolio => a = b
             /\ {row.portfolio : row \in open} = Listed(s.list) \cap existing
<1> DEFINE s == editor[e]
           Ended(row) == \E c \in Closed(s) : SameRow(row, c)
           Kept(row) == IF Ended(row) THEN [row EXCEPT !.to = s.now] ELSE row
           open == {row \in RowsReplaced(s) : row.to = NoEnd}
           staying == {row \in OpenRows : row.portfolio \in Listed(s.list)}
<1>1. Live(e) /\ OpenRows = {row \in s.current : row.portfolio \in existing}
  BY DEF Live, Conflicts, GroupsInv, Undisturbed
<1>2. s.now \in Nat /\ s.now # NoEnd
  BY DEF GroupsInv, EditorsOK, NoEnd
<1>3. ASSUME NEW row \in rows
      PROVE  Kept(row).to = NoEnd <=> row \in staying
  <2>1. row \in Member /\ row.portfolio \in existing
    BY DEF GroupsInv, TablesOK
  <2>2. CASE row.to # NoEnd
    BY <1>2, <2>1, <2>2 DEF OpenRows, Member
  <2>3. CASE row.to = NoEnd /\ row.portfolio \in Listed(s.list)
    <3>1. ~Ended(row)
      BY <2>3 DEF Closed, SameRow
    <3> QED
      BY <2>3, <3>1 DEF OpenRows
  <2>4. CASE row.to = NoEnd /\ row.portfolio \notin Listed(s.list)
    <3>1. row \in s.current
      BY <1>1, <2>4 DEF OpenRows
    <3>2. Ended(row)
      BY <2>4, <3>1 DEF Closed, SameRow
    <3> QED
      BY <1>2, <2>1, <2>4, <3>2 DEF Member
  <2> QED
    BY <2>2, <2>3, <2>4
<1>4. \A row \in staying : row \in rows /\ Kept(row) = row
  BY DEF OpenRows, Closed, SameRow
<1>5. \A new \in NewRows(s) : new.to = NoEnd
  BY DEF NewRows
<1>6. open = staying \cup NewRows(s)
  <2> HIDE DEF Ended
  <2>1. RowsReplaced(s) = {Kept(row) : row \in rows} \cup NewRows(s)
    BY DEF RowsReplaced, Ended
  <2> HIDE DEF s, Kept, staying
  <2> QED
    BY <1>3, <1>4, <1>5, <2>1
<1>7. \A a, b \in staying : a.portfolio = b.portfolio => a = b
  BY DEF GroupsInv, Undisturbed
<1>8. ASSUME NEW i \in Added(s)
      PROVE  /\ i \in DOMAIN s.list /\ s.list[i] \in existing /\ s.list[i] \notin Known(s)
             /\ \A j \in Added(s) : i # j => s.list[i] # s.list[j]
  BY DEF Conflicts, Added
<1>9. \A row \in OpenRows : row.portfolio \in Known(s) /\ row.portfolio \in existing
  BY <1>1 DEF Known
<1>10. ASSUME NEW a \in NewRows(s)
       PROVE  \E i \in Added(s) : a = [portfolio |-> s.list[i], from |-> s.now, to |-> NoEnd]
  BY DEF NewRows
<1>11. ASSUME NEW a \in open, NEW b \in open, a.portfolio = b.portfolio
       PROVE  a = b
  <2>1. CASE a \in staying /\ b \in staying
    BY <1>7, <1>11, <2>1
  <2>2. ASSUME NEW row \in staying, NEW new \in NewRows(s)
        PROVE  row.portfolio # new.portfolio
    BY <1>8, <1>9, <1>10
  <2>3. CASE a \in NewRows(s) /\ b \in NewRows(s)
    <3> HIDE DEF s
    <3>1. PICK i \in Added(s) : a = [portfolio |-> s.list[i], from |-> s.now, to |-> NoEnd]
      BY <1>10, <2>3
    <3>2. PICK j \in Added(s) : b = [portfolio |-> s.list[j], from |-> s.now, to |-> NoEnd]
      BY <1>10, <2>3
    <3>3. s.list[i] = s.list[j]
      BY <1>11, <3>1, <3>2
    <3> QED
      BY <1>8, <3>1, <3>2, <3>3
  <2> HIDE DEF open, staying
  <2> QED
    BY <1>6, <1>11, <2>1, <2>2, <2>3
<1>12. \A row \in open : row.portfolio \in Listed(s.list) \cap existing
  <2>1. \A row \in staying : row.portfolio \in Listed(s.list) \cap existing
    BY <1>9
  <2>2. \A new \in NewRows(s) : new.portfolio \in Listed(s.list) \cap existing
    BY <1>8, <1>10 DEF Listed
  <2> HIDE DEF open, staying, s
  <2> QED
    BY <1>6, <2>1, <2>2
<1>13. ASSUME NEW p \in Listed(s.list) \cap existing
       PROVE  \E row \in open : row.portfolio = p
  <2>1. PICK i \in DOMAIN s.list : s.list[i] = p
    BY DEF Listed
  <2>2. CASE p \in Known(s)
    <3>1. PICK row \in s.current : row.portfolio = p
      BY <2>2 DEF Known
    <3>2. row \in staying
      BY <1>1, <3>1
    <3> HIDE DEF open, staying, s
    <3> QED
      BY <1>6, <3>1, <3>2
  <2>3. CASE p \notin Known(s)
    <3>1. [portfolio |-> p, from |-> s.now, to |-> NoEnd] \in NewRows(s)
      BY <2>1, <2>3 DEF NewRows, Added
    <3> HIDE DEF open, staying, s
    <3> QED
      BY <1>6, <3>1
  <2> QED
    BY <2>2, <2>3
<1> HIDE DEF open
<1>14. {row.portfolio : row \in open} = Listed(s.list) \cap existing
  BY <1>12, <1>13
<1> QED
  BY <1>11, <1>14 DEF open, s

LEMMA ReplaceKeepsInv ==
  ASSUME GroupsInv, NEW e \in Editors, ReplaceMembers(e)
  PROVE  GroupsInv'
<1> DEFINE s == editor[e]
<1>1. /\ Editing(e) /\ UNCHANGED <<moment, existing, group, overlapped>>
      /\ rows' = IF Conflicts(s) THEN rows ELSE RowsReplaced(s)
  BY DEF ReplaceMembers
<1>2. /\ DOMAIN editor' = Editors
      /\ editor'[e] = IF Conflicts(s) THEN [at |-> "idle"] ELSE [at |-> "done", list |-> s.list]
      /\ \A f \in Editors \ {e} : editor'[f] = IF Editing(f) THEN editor[f] ELSE [at |-> "idle"]
  BY <1>1 DEF ReplaceMembers, Idler
<1>3. CASE Conflicts(s)
  <2>1. \A f \in Editors : editor'[f].at # "idle" => (editor'[f] = editor[f] /\ Editing(f))
    BY <1>2, <1>3
  <2>2. TablesOK'
    BY <1>1, <1>3 DEF GroupsInv, TablesOK
  <2>3. EditorsOK'
    BY <1>1, <1>2, <1>3, <2>1 DEF GroupsInv, EditorsOK, Editing, Live
  <2>4. Undisturbed'
    BY <1>1, <1>3, <2>1 DEF GroupsInv, Undisturbed, OpenRows, Editing, Live
  <2> QED
    BY <2>2, <2>3, <2>4 DEF GroupsInv
<1>4. CASE ~Conflicts(s)
  <2>1. /\ group /\ ~s.gone /\ rows' = RowsReplaced(s)
        /\ RowsReplaced(s) \subseteq Member
        /\ \A a, b \in RowsReplaced(s) : (a.portfolio = b.portfolio /\ a.from = b.from) => a = b
        /\ \A a \in RowsReplaced(s) :
             a.portfolio \in existing /\ a.from <= moment /\ (a.to = NoEnd \/ a.to <= moment)
    BY <1>1, <1>4, RowsReplacedOK
  <2>2. TablesOK'
    BY <1>1, <2>1 DEF GroupsInv, TablesOK
  <2>3. ASSUME NEW f \in Editors, editor'[f].at # "idle"
        PROVE  \/ f = e /\ editor'[f] = [at |-> "done", list |-> s.list]
               \/ f # e /\ Editing(f) /\ editor'[f] = editor[f]
    BY <1>2, <1>4, <2>3
  <2>4. EditorsOK'
    BY <1>1, <1>2, <1>4, <2>1, <2>3 DEF GroupsInv, EditorsOK, Editing, Live
  <2>5. ASSUME ~overlapped
        PROVE  /\ \A a, b \in OpenRows' : a.portfolio = b.portfolio => a = b
               /\ {row.portfolio : row \in OpenRows'} = Listed(s.list) \cap existing
    <3>1. OpenRows' = {row \in RowsReplaced(s) : row.to = NoEnd}
      BY <2>1 DEF OpenRows
    <3> QED
      BY <1>1, <1>4, <2>5, <3>1, RowsReplacedAreAsked
  <2>6. ASSUME ~overlapped, NEW f \in Editors PROVE ~Live(f)'
    BY <1>1, <2>1, <2>3, <2>6 DEF GroupsInv, EditorsOK, Editing, Live
  <2>7. ASSUME NEW f \in Editors, editor'[f].at = "done" PROVE editor'[f].list = s.list
    BY <2>3, <2>7 DEF Editing
  <2>8. Undisturbed'
    BY <1>1, <2>5, <2>6, <2>7 DEF Undisturbed
  <2> QED
    BY <2>2, <2>4, <2>8 DEF GroupsInv
<1> QED
  BY <1>3, <1>4

LEMMA GroupsInvNext == (GroupsInv /\ [GroupsNext]_groupVars) => GroupsInv'
<1> SUFFICES ASSUME GroupsInv, [GroupsNext]_groupVars PROVE GroupsInv'
  OBVIOUS
<1>1. CASE GroupClockTicks
  <2>1. moment \in Nat /\ GroupStart \in Nat /\ GroupHorizon \in Nat
    BY GroupsAssumption DEF GroupsInv, TablesOK
  <2>2. \A e \in Editors : editor'[e] = IF Editing(e) THEN editor[e] ELSE [at |-> "idle"]
    BY <1>1 DEF GroupClockTicks, Idler
  <2>3. \A e \in Editors : editor'[e].at # "idle" => (editor'[e] = editor[e] /\ Editing(e))
    BY <2>2
  <2>4. TablesOK'
    BY <1>1, <2>1 DEF GroupClockTicks, GroupsInv, TablesOK, Member
  <2>5. EditorsOK'
    BY <1>1, <2>1, <2>2, <2>3 DEF GroupClockTicks, GroupsInv, EditorsOK, Editing, Live
  <2>6. Undisturbed'
    BY <1>1, <2>3 DEF GroupClockTicks, GroupsInv, Undisturbed, OpenRows, Editing, Live
  <2> QED
    BY <2>4, <2>5, <2>6 DEF GroupsInv
<1>2. ASSUME NEW list \in MemberLists, CreateGroup(list) PROVE GroupsInv'
  <2>1. ASSUME NEW p \in Listed(list)
        PROVE p \in existing /\ p \in Portfolios /\ created_at[p] \in Nat /\ created_at[p] <= moment
    BY <1>2, GroupsAssumption DEF CreateGroup, GroupsInv, TablesOK
  <2>2. TablesOK'
    BY <1>2, <2>1 DEF CreateGroup, GroupsInv, TablesOK, Member
  <2>3. \A e \in Editors : ~Live(e) /\ editor[e].at # "done" /\ editor'[e] = editor[e]
    BY <1>2 DEF CreateGroup, GroupsInv, EditorsOK
  <2>4. EditorsOK'
    BY <1>2, <2>3 DEF CreateGroup, GroupsInv, EditorsOK, Editing, Live
  <2>5. Undisturbed'
    BY <1>2, <2>3 DEF CreateGroup, Undisturbed, OpenRows, Editing, Live
  <2> QED
    BY <2>2, <2>4, <2>5 DEF GroupsInv
<1>3. CASE DeleteGroup
  <2>1. TablesOK'
    BY <1>3 DEF DeleteGroup, GroupsInv, TablesOK
  <2>2. ASSUME NEW e \in Editors
        PROVE  /\ ~Live(e)' /\ editor'[e].at \in {"idle", "editing"}
               /\ Editing(e)' => (/\ Editing(e) /\ editor'[e].now = editor[e].now
                                  /\ editor'[e].current = editor[e].current
                                  /\ "gone" \in DOMAIN editor'[e])
    <3>1. CASE Editing(e)
      <4>1. editor'[e] = [editor[e] EXCEPT !.gone = TRUE]
        BY <1>3, <3>1 DEF DeleteGroup
      <4>2. "gone" \in DOMAIN editor[e]
        BY <3>1 DEF GroupsInv, EditorsOK
      <4>3. editor'[e].gone = TRUE /\ "gone" \in DOMAIN editor'[e]
        BY <4>1, <4>2
      <4> QED
        BY <3>1, <4>1, <4>3 DEF Editing, Live
    <3>2. CASE ~Editing(e)
      BY <1>3, <3>2 DEF DeleteGroup, Idler, Editing, Live
    <3> QED
      BY <3>1, <3>2
  <2>3. EditorsOK'
    BY <1>3, <2>2 DEF DeleteGroup, GroupsInv, EditorsOK
  <2>4. Undisturbed'
    BY <1>3, <2>2 DEF DeleteGroup, Undisturbed, OpenRows
  <2> QED
    BY <2>1, <2>3, <2>4 DEF GroupsInv
<1>4. ASSUME NEW p \in Portfolios, DeleteMember(p) PROVE GroupsInv'
  <2>1. TablesOK'
    BY <1>4 DEF DeleteMember, GroupsInv, TablesOK
  <2>2. EditorsOK'
    BY <1>4 DEF DeleteMember, GroupsInv, EditorsOK, Editing, Live
  <2>3. OpenRows' = {row \in OpenRows : row.portfolio # p} /\ existing' = existing \ {p}
    BY <1>4 DEF DeleteMember, OpenRows
  <2>4. Undisturbed'
    BY <1>4, <2>3 DEF DeleteMember, GroupsInv, Undisturbed, Editing, Live
  <2> QED
    BY <2>1, <2>2, <2>4 DEF GroupsInv
<1>5. ASSUME NEW e \in Editors, NEW list \in MemberLists, ReadMembers(e, list) PROVE GroupsInv'
  <2> DEFINE current == {row \in RowsAt(moment) :
                           \A other \in RowsAt(moment) : other.portfolio = row.portfolio => other.from <= row.from}
             s == [at |-> "editing", now |-> moment, list |-> list, current |-> current, gone |-> FALSE]
  <2>1. /\ ~Editing(e) /\ group /\ editor' = [editor EXCEPT ![e] = s]
        /\ overlapped' = (overlapped \/ \E f \in Editors \ {e} : Editing(f))
        /\ UNCHANGED <<moment, existing, group, rows>>
    BY <1>5 DEF ReadMembers
  <2>2. RowsAt(moment) = OpenRows
    BY GroupsAssumption DEF GroupsInv, TablesOK, RowsAt, OpenRows, Member, NoEnd
  <2>3. current \subseteq OpenRows /\ OpenRows \subseteq Member
    BY <2>2 DEF GroupsInv, TablesOK, OpenRows
  <2>4. ASSUME ~overlapped PROVE current = OpenRows
    <3>1. \A row, other \in OpenRows : other.portfolio = row.portfolio => other = row
      BY <2>4 DEF GroupsInv, Undisturbed
    <3>2. \A row \in OpenRows : row.from \in Nat
      BY <2>3 DEF Member
    <3>3. \A row, other \in OpenRows : other.portfolio = row.portfolio => other.from <= row.from
      BY <3>1, <3>2
    <3>4. \A row \in OpenRows : row \in current
      BY <2>2, <3>3
    <3> QED
      BY <2>3, <3>4
  <2>5. /\ s.at = "editing" /\ s.now = moment /\ s.current = current /\ s.gone = FALSE
        /\ "gone" \in DOMAIN s
    OBVIOUS
  <2> HIDE DEF s, current
  <2>6. editor'[e] = s /\ \A f \in Editors \ {e} : editor'[f] = editor[f]
    BY <2>1 DEF GroupsInv, EditorsOK
  <2>7. TablesOK'
    BY <2>1 DEF GroupsInv, TablesOK
  <2>8. moment \in Nat
    BY GroupsAssumption DEF GroupsInv, TablesOK
  <2>9. EditorsOK'
    <3>1. \A f \in Editors : f = e \/ editor'[f] = editor[f]
      BY <2>6
    <3>2. DOMAIN editor' = Editors
      BY <2>1 DEF GroupsInv, EditorsOK
    <3>3. ASSUME NEW f \in Editors
          PROVE  /\ editor'[f].at \in {"idle", "editing", "done"}
                 /\ Editing(f)' => (/\ editor'[f].now \in Nat /\ editor'[f].now <= moment
                                    /\ editor'[f].current \subseteq Member
                                    /\ "gone" \in DOMAIN editor'[f])
      BY <2>3, <2>5, <2>6, <2>8, <3>1 DEF GroupsInv, EditorsOK, Editing
    <3>4. \A f \in Editors : (Live(f)' \/ editor'[f].at = "done") => group
      BY <2>1, <3>1 DEF GroupsInv, EditorsOK, Editing, Live
    <3>5. ASSUME NEW f \in Editors, NEW g \in Editors, f # g, Live(f)', Live(g)'
          PROVE  overlapped'
      BY <2>1, <2>6, <3>1, <3>5 DEF GroupsInv, EditorsOK, Editing, Live
    <3> QED
      BY <2>1, <3>2, <3>3, <3>4, <3>5 DEF EditorsOK
  <2>10. \A row \in OpenRows : row.portfolio \in existing
    BY DEF GroupsInv, TablesOK, OpenRows
  <2>11. Undisturbed'
    BY <2>1, <2>4, <2>5, <2>6, <2>10 DEF GroupsInv, Undisturbed, OpenRows, Editing, Live
  <2> QED
    BY <2>7, <2>9, <2>11 DEF GroupsInv
<1>6. ASSUME NEW e \in Editors, ReplaceMembers(e) PROVE GroupsInv'
  BY <1>6, ReplaceKeepsInv
<1>7. CASE UNCHANGED groupVars
  BY <1>7 DEF groupVars, GroupsInv, TablesOK, EditorsOK, Undisturbed, OpenRows, Editing, Live
<1> QED
  BY <1>1, <1>2, <1>3, <1>4, <1>5, <1>6, <1>7 DEF GroupsNext, MembershipNext

\* replace_members: unless two replacements of a group overlapped, its members
\* are those the last one asked for, in a report and in a series alike.
THEOREM MembersAreTheLastAsked == GroupsSpec => []MembersAreThoseAsked
<1>1. GroupsInit => GroupsInv
  BY GroupsInvInit
<1>2. (GroupsInv /\ [GroupsNext]_groupVars) => GroupsInv'
  BY GroupsInvNext
<1>3. GroupsInv => MembersAreThoseAsked
  <2> SUFFICES ASSUME GroupsInv, NEW e \in Editors, editor[e].at = "done", ~overlapped, group
      PROVE  /\ CurrentMembers = Listed(editor[e].list) \cap existing
             /\ MembersAt(moment) = CurrentMembers
    BY DEF MembersAreThoseAsked
  <2>1. RowsAt(moment) = OpenRows
    BY GroupsAssumption DEF GroupsInv, TablesOK, RowsAt, OpenRows, Member, NoEnd
  <2>2. {row.portfolio : row \in OpenRows} = Listed(editor[e].list) \cap existing
    BY DEF GroupsInv, Undisturbed
  <2>3. CurrentMembers = {row.portfolio : row \in OpenRows} \cap existing
    BY DEF CurrentMembers, OpenRows
  <2> QED
    BY <2>1, <2>2, <2>3 DEF MembersAt
<1> QED
  BY <1>1, <1>2, <1>3, PTL DEF GroupsSpec

-----------------------------------------------------------------------------
(* Groups: history *)

\* No replacement takes longer than EditTicks, and what has become of a row that
\* it read is the work of one that began no more than that before it.
Paced ==
  /\ \A e \in Editors : Editing(e) => moment <= editor[e].now + EditTicks
  /\ \A e \in Editors : Live(e) =>
       \A read \in editor[e].current, row \in rows :
         SameRow(row, read) => (row.to = NoEnd \/ row.to >= editor[e].now - EditTicks)

\* A step after which every replacement under way was under way before, with the
\* same rows, keeps the pace if it leaves the clock and adds no row that is closed.
LEMMA PacedKept ==
  ASSUME GroupsInv, Paced, UNCHANGED moment,
         \A f \in Editors : Editing(f)' =>
           (/\ Editing(f) /\ editor'[f].now = editor[f].now
            /\ editor'[f].current = editor[f].current
            /\ Live(f)' => Live(f)),
         \A row \in rows' : row \in rows \/ row.to = NoEnd
  PROVE  Paced'
BY DEF Paced, Live, SameRow, Editing

LEMMA PacedInit == GroupsInit => Paced
BY DEF GroupsInit, Paced, Idler, Editing, Live

LEMMA ReplaceKeepsPace ==
  ASSUME GroupsInv, Paced, NEW e \in Editors, ReplaceMembers(e)
  PROVE  Paced'
<1> DEFINE s == editor[e]
           Ended(row) == \E c \in Closed(s) : SameRow(row, c)
           Kept(row) == IF Ended(row) THEN [row EXCEPT !.to = s.now] ELSE row
<1>1. /\ Editing(e) /\ UNCHANGED <<moment, existing, group, overlapped>>
      /\ rows' = IF Conflicts(s) THEN rows ELSE RowsReplaced(s)
  BY DEF ReplaceMembers
<1>2. \A f \in Editors : Editing(f)' => Editing(f) /\ editor'[f] = editor[f]
  BY DEF ReplaceMembers, Idler, Editing
<1>3. /\ s.now \in Nat /\ moment \in Nat /\ s.now >= moment - EditTicks /\ EditTicks \in Nat
      /\ \A f \in Editors : Editing(f) => editor[f].now \in Nat /\ editor[f].now <= moment
  BY <1>1, GroupsAssumption DEF Paced, GroupsInv, TablesOK, EditorsOK
<1>4. ASSUME NEW row \in rows'
      PROVE  \/ row \in rows \/ row.to = NoEnd
             \/ \E old \in rows : SameRow(row, old) /\ row.to = s.now
  <2>1. CASE Conflicts(s)
    BY <1>1, <2>1
  <2>2. CASE ~Conflicts(s)
    <3>1. row \in NewRows(s) \/ \E old \in rows : row = Kept(old)
      BY <1>1, <2>2 DEF RowsReplaced
    <3>2. row \in NewRows(s) => row.to = NoEnd
      BY DEF NewRows
    <3>3. ASSUME NEW old \in rows, row = Kept(old)
          PROVE  row \in rows \/ (SameRow(row, old) /\ row.to = s.now)
      <4>1. old \in Member
        BY DEF GroupsInv, TablesOK
      <4> HIDE DEF Ended, s
      <4> QED
        BY <3>3, <4>1 DEF Member, SameRow
    <3> QED
      BY <3>1, <3>2, <3>3
  <2> QED
    BY <2>1, <2>2
<1>5. ASSUME NEW f \in Editors, Live(f)', NEW read \in editor[f].current, NEW row \in rows', SameRow(row, read)
      PROVE  row.to = NoEnd \/ row.to >= editor[f].now - EditTicks
  <2>1. Editing(f) /\ Live(f)
    BY <1>2, <1>5 DEF Live
  <2>2. \A old \in rows : SameRow(old, read) => (old.to = NoEnd \/ old.to >= editor[f].now - EditTicks)
    BY <2>1 DEF Paced
  <2> HIDE DEF s
  <2> QED
    BY <1>3, <1>4, <1>5, <2>1, <2>2
<1> QED
  BY <1>1, <1>2, <1>5 DEF Paced, Live

LEMMA PacedNext == (GroupsInv /\ Paced /\ [GroupsNext]_groupVars) => Paced'
<1> SUFFICES ASSUME GroupsInv, Paced, [GroupsNext]_groupVars PROVE Paced'
  OBVIOUS
<1>1. CASE GroupClockTicks
  <2>1. \A f \in Editors : Editing(f)' => Editing(f) /\ editor'[f] = editor[f] /\ moment < editor[f].now + EditTicks
    BY <1>1 DEF GroupClockTicks, Idler, Editing
  <2>2. /\ moment \in Nat /\ EditTicks \in Nat /\ moment' = moment + 1 /\ rows' = rows
        /\ \A f \in Editors : Editing(f) => editor[f].now \in Nat
    BY <1>1, GroupsAssumption DEF GroupClockTicks, GroupsInv, TablesOK, EditorsOK
  <2> QED
    BY <2>1, <2>2 DEF Paced, Live
<1>2. ASSUME NEW list \in MemberLists, CreateGroup(list) PROVE Paced'
  <2>1. \A row \in rows' : row.to = NoEnd
    BY <1>2 DEF CreateGroup
  <2>2. UNCHANGED <<moment, editor>>
    BY <1>2 DEF CreateGroup
  <2> QED
    BY <2>1, <2>2, PacedKept DEF Editing, Live
<1>3. CASE DeleteGroup
  <2>1. rows' = {} /\ UNCHANGED moment
    BY <1>3 DEF DeleteGroup
  <2>2. ASSUME NEW f \in Editors, Editing(f)' PROVE Editing(f) /\ editor'[f].now = editor[f].now
    BY <1>3, <2>2 DEF DeleteGroup, Idler, Editing
  <2> QED
    BY <2>1, <2>2 DEF Paced
<1>4. ASSUME NEW p \in Portfolios, DeleteMember(p) PROVE Paced'
  <2>1. rows' \subseteq rows /\ UNCHANGED <<moment, editor>>
    BY <1>4 DEF DeleteMember
  <2> QED
    BY <2>1, PacedKept DEF Editing, Live
<1>5. ASSUME NEW e \in Editors, NEW list \in MemberLists, ReadMembers(e, list) PROVE Paced'
  <2>1. PICK read : /\ read \subseteq RowsAt(moment)
                    /\ editor' = [editor EXCEPT ![e] =
                         [at |-> "editing", now |-> moment, list |-> list, current |-> read, gone |-> FALSE]]
    BY <1>5 DEF ReadMembers
  <2>2. UNCHANGED <<moment, rows>>
    BY <1>5 DEF ReadMembers
  <2>3. editor'[e].now = moment /\ editor'[e].current = read /\ \A f \in Editors \ {e} : editor'[f] = editor[f]
    BY <2>1 DEF GroupsInv, EditorsOK
  <2>4. moment \in Nat /\ EditTicks \in Nat
    BY GroupsAssumption DEF GroupsInv, TablesOK
  <2>5. ASSUME NEW c \in read, NEW row \in rows, SameRow(row, c) PROVE row.to = NoEnd
    <3>1. c \in rows /\ row = c
      BY <2>1, <2>5 DEF RowsAt, SameRow, GroupsInv, TablesOK
    <3>2. c.to = NoEnd \/ c.to > moment
      BY <2>1 DEF RowsAt
    <3>3. row \in Member /\ (row.to = NoEnd \/ row.to <= moment)
      BY DEF GroupsInv, TablesOK
    <3> QED
      BY <2>4, <3>1, <3>2, <3>3 DEF Member, NoEnd
  <2>6. \A f \in Editors : Editing(f)' => moment <= editor'[f].now + EditTicks
    BY <2>3, <2>4 DEF Paced, Editing
  <2>7. \A f \in Editors : Live(f)' =>
          \A c \in editor'[f].current, row \in rows :
            SameRow(row, c) => (row.to = NoEnd \/ row.to >= editor'[f].now - EditTicks)
    BY <2>3, <2>5 DEF Paced, Live, Editing
  <2> QED
    BY <2>2, <2>6, <2>7 DEF Paced
<1>6. ASSUME NEW e \in Editors, ReplaceMembers(e) PROVE Paced'
  BY <1>6, ReplaceKeepsPace
<1>7. CASE UNCHANGED groupVars
  BY <1>7 DEF groupVars, Paced, Editing, Live
<1> QED
  BY <1>1, <1>2, <1>3, <1>4, <1>5, <1>6, <1>7 DEF GroupsNext, MembershipNext

\* Since is no later than the beginning of a replacement under way, and leaves time for two
\* if they overlapped.
LEMMA SinceIs ==
  ASSUME GroupsInv
  PROVE  /\ Since \in Int
         /\ overlapped => Since = moment - 2 * EditTicks
         /\ \A e \in Editors : (~overlapped /\ Editing(e)) => Since <= editor[e].now
<1> DEFINE Nows == {moment} \cup {editor[e].now : e \in {e \in Editors : Editing(e)}}
<1>1. moment \in Nat /\ EditTicks \in Nat
  BY GroupsAssumption DEF GroupsInv, TablesOK
<1>2. \A e \in Editors : Editing(e) => editor[e].now \in Nat
  BY DEF GroupsInv, EditorsOK
<1>3. Nows \in SUBSET Int /\ Nows # {} /\ 0 \in Int /\ \A t \in Nows : 0 <= t
  BY <1>1, <1>2
<1>4. overlapped \/ Since = Min(Nows)
  BY DEF Since
<1>5. \A e \in Editors : Editing(e) => editor[e].now \in Nows
  OBVIOUS
<1> HIDE DEF Nows
<1>6. Min(Nows) \in Nows /\ \A t \in Nows : Min(Nows) <= t
  BY <1>3, MinIs
<1>7. CASE overlapped
  <2>1. Since = moment - 2 * EditTicks
    BY <1>7 DEF Since
  <2> QED
    BY <1>1, <1>7, <2>1
<1>8. CASE ~overlapped
  <2>1. Since = Min(Nows)
    BY <1>4, <1>8
  <2> QED
    BY <1>3, <1>5, <1>6, <1>8, <2>1
<1> QED
  BY <1>7, <1>8

\* A replacement ends no row that had ended before Since, nor anything before.
LEMMA ReplacingKeepsHistory ==
  ASSUME GroupsInv, Paced, NEW e \in Editors, ReplaceMembers(e), NEW t \in Nat, t < Since
  PROVE  MembersAt(t)' = MembersAt(t)
<1> DEFINE s == editor[e]
           Ended(row) == \E c \in Closed(s) : SameRow(row, c)
           Kept(row) == IF Ended(row) THEN [row EXCEPT !.to = s.now] ELSE row
<1>1. Editing(e) /\ rows' = IF Conflicts(s) THEN rows ELSE RowsReplaced(s)
  BY DEF ReplaceMembers
<1>2. CASE Conflicts(s)
  BY <1>1, <1>2 DEF MembersAt, RowsAt
<1>3. CASE ~Conflicts(s)
  <2>1. /\ s.now \in Nat /\ moment \in Nat /\ EditTicks \in Nat /\ s.now >= moment - EditTicks
        /\ Live(e)
    BY <1>1, <1>3, GroupsAssumption DEF Paced, GroupsInv, TablesOK, EditorsOK, Live, Conflicts
  <2>2. t < s.now
    BY <1>1, <2>1, SinceIs
  <2>3. rows' = {Kept(row) : row \in rows} \cup NewRows(s)
    BY <1>1, <1>3 DEF RowsReplaced
  <2>4. ASSUME NEW row \in rows
        PROVE  /\ Kept(row).portfolio = row.portfolio
               /\ row \in RowsAt(t) <=> (Kept(row).from <= t /\ (Kept(row).to = NoEnd \/ Kept(row).to > t))
    <3>1. row \in Member /\ row.portfolio \in existing
      BY DEF GroupsInv, TablesOK
    <3>2. CASE ~Ended(row)
      BY <3>2 DEF RowsAt
    <3>3. CASE Ended(row)
      <4>1. PICK c \in Closed(s) : SameRow(row, c)
        BY <3>3
      <4>2. c \in s.current
        BY <4>1 DEF Closed
      <4>3. row.to = NoEnd \/ row.to >= s.now - EditTicks
        BY <2>1, <4>1, <4>2 DEF Paced
      <4>4. ASSUME ~overlapped PROVE row.to = NoEnd
        <5>1. c \in OpenRows
          BY <2>1, <3>1, <4>1, <4>2, <4>4 DEF GroupsInv, Undisturbed, SameRow
        <5>2. row = c
          BY <4>1, <5>1 DEF OpenRows, SameRow, GroupsInv, TablesOK
        <5> QED
          BY <5>1, <5>2 DEF OpenRows
      <4>5. row.to = NoEnd \/ row.to > t
        BY <2>1, <3>1, <4>3, <4>4, SinceIs DEF Member, NoEnd
      <4>6. Kept(row) = [row EXCEPT !.to = s.now]
        BY <3>3
      <4>7. Kept(row).from = row.from /\ Kept(row).to = s.now /\ Kept(row).portfolio = row.portfolio
        BY <3>1, <4>6 DEF Member
      <4> HIDE DEF s, Kept
      <4> QED
        BY <2>2, <4>5, <4>7 DEF RowsAt
    <3> QED
      BY <3>2, <3>3
  <2>5. \A new \in NewRows(s) : ~(new.from <= t)
    <3>1. \A new \in NewRows(s) : new.from = s.now
      BY DEF NewRows
    <3> HIDE DEF s
    <3> QED
      BY <2>1, <2>2, <3>1
  <2> HIDE DEF Kept, s
  <2>6. ASSUME NEW p \in MembersAt(t) PROVE p \in MembersAt(t)'
    <3>1. PICK row \in RowsAt(t) : row.portfolio = p
      BY <2>6 DEF MembersAt
    <3>2. row \in rows
      BY <3>1 DEF RowsAt
    <3>3. Kept(row) \in RowsAt(t)'
      BY <2>3, <2>4, <3>1, <3>2 DEF RowsAt
    <3> QED
      BY <2>4, <3>1, <3>2, <3>3 DEF MembersAt
  <2>7. ASSUME NEW p \in MembersAt(t)' PROVE p \in MembersAt(t)
    <3>1. PICK kept \in RowsAt(t)' : kept.portfolio = p
      BY <2>7 DEF MembersAt
    <3>2. PICK row \in rows : kept = Kept(row)
      BY <2>3, <2>5, <3>1 DEF RowsAt
    <3>3. row \in RowsAt(t)
      BY <2>4, <3>1, <3>2 DEF RowsAt
    <3> QED
      BY <2>4, <3>1, <3>2, <3>3 DEF MembersAt
  <2> QED
    BY <2>6, <2>7
<1> QED
  BY <1>2, <1>3

\* PortfolioGroupMember: membership is never edited in place.  Whoever overlaps
\* whom, who was in the group at an instant stays what it was.
THEOREM HistoryStays == GroupsSpec => HistoryIsNotRestated
<1> DEFINE Step == (group /\ group') =>
             \A t \in 0 .. Since - 1 : MembersAt(t)' = MembersAt(t) \cap existing'
<1>1. ASSUME GroupsInv, Paced, [GroupsNext]_groupVars PROVE [Step]_groupVars
  <2> SUFFICES ASSUME GroupsNext, group, group', NEW t \in 0 .. Since - 1
               PROVE  MembersAt(t)' = MembersAt(t) \cap existing'
    BY <1>1
  <2>1. \A row \in rows : row.portfolio \in existing
    BY <1>1 DEF GroupsInv, TablesOK
  <2>2. MembersAt(t) \cap existing = MembersAt(t)
    BY <2>1 DEF MembersAt, RowsAt
  <2>3. ASSUME UNCHANGED <<rows, existing>> PROVE MembersAt(t)' = MembersAt(t) \cap existing'
    BY <2>2, <2>3 DEF MembersAt, RowsAt
  <2>4. CASE GroupClockTicks
    BY <2>3, <2>4 DEF GroupClockTicks
  <2>5. ASSUME NEW p \in Portfolios, DeleteMember(p) PROVE MembersAt(t)' = MembersAt(t) \cap existing'
    <3>1. rows' = {row \in rows : row.portfolio # p} /\ existing' = existing \ {p}
      BY <2>5 DEF DeleteMember
    <3>2. RowsAt(t)' = {row \in RowsAt(t) : row.portfolio # p}
      BY <3>1 DEF RowsAt
    <3> QED
      BY <2>2, <3>1, <3>2 DEF MembersAt
  <2>6. ASSUME NEW e \in Editors, NEW list \in MemberLists, ReadMembers(e, list)
        PROVE  MembersAt(t)' = MembersAt(t) \cap existing'
    BY <2>3, <2>6 DEF ReadMembers
  <2>7. ASSUME NEW e \in Editors, ReplaceMembers(e) PROVE MembersAt(t)' = MembersAt(t) \cap existing'
    <3>1. t \in Nat /\ t < Since
      BY <1>1, SinceIs
    <3>2. UNCHANGED existing
      BY <2>7 DEF ReplaceMembers
    <3> QED
      BY <1>1, <2>2, <2>7, <3>1, <3>2, ReplacingKeepsHistory
  <2> QED
    BY <2>4, <2>5, <2>6, <2>7 DEF GroupsNext, MembershipNext, CreateGroup, DeleteGroup
<1> QED
  BY <1>1, GroupsInvInit, GroupsInvNext, PacedInit, PacedNext, PTL DEF GroupsSpec, HistoryIsNotRestated

-----------------------------------------------------------------------------
(* Identity: the inductive invariants *)

IdentityNext == ClassificationNext \/ IssuersNext

\* Two requests at a time that write one row are on record as such.
OverlapsAreKnown ==
  \A c, d \in Curators :
    (c # d /\ Writing(c) /\ Writing(d) /\ curator[c].about = curator[d].about) => curator[c].about \in raced

\* What a request has read of a row is what the row still is.
ReadsAreCurrent ==
  \A c \in Curators : Writing(c) =>
    /\ curator[c].about \in {"derived", "manual_override"}
    /\ curator[c].about \notin raced => curator[c].seen = facts[curator[c].about]
    /\ curator[c].at = "recording" => curator[c].value \in Values
    /\ curator[c].at = "retracting" =>
         (curator[c].about = "manual_override" /\ curator[c].seen.value # NoValue)

\* A row tells what was said of its provenance, unless it was raced for.
RowsTellWhatWasSaid ==
  \A p \in Provenances \ raced :
    said[p] = IF facts[p].retracted THEN NoValue ELSE facts[p].value

\* Only overrides are retracted, and nobody writes a row of another provenance.
RowsInUse ==
  /\ facts["derived"].retracted = FALSE
  /\ facts["verified_internal"] = NoFact /\ facts["provider"] = NoFact

ClassificationShape ==
  /\ DOMAIN curator = Curators
  /\ DOMAIN facts = Provenances /\ DOMAIN said = Provenances
  /\ \A p \in Provenances : facts[p] \in [value: Values \cup {NoValue}, retracted: BOOLEAN]

Classified ==
  ClassificationShape /\ OverlapsAreKnown /\ ReadsAreCurrent /\ RowsTellWhatWasSaid /\ RowsInUse

\* One issuer of a name, unless two mappings found none at a time.
NamesAreUnique ==
  \A i, j \in DOMAIN issuers : (issuers[i] = issuers[j] /\ issuers[i] \notin raced) => i = j

AddersAreKnown ==
  \A c, d \in Curators :
    (c # d /\ Adding(c) /\ Adding(d) /\ curator[c].about = curator[d].about) => curator[c].about \in raced

\* What a mapping has found is still there, and what it has not found still not;
\* what it has read of the listing is current, or it was overtaken.
LookupsAreCurrent ==
  \A c \in Curators : Mapping(c) =>
    /\ curator[c].about \in Names /\ curator[c].listing \in Listings
    /\ curator[c].issuer # NoIssuer =>
         (curator[c].issuer \in DOMAIN issuers /\ issuers[curator[c].issuer] = curator[c].about)
    /\ (Adding(c) /\ curator[c].about \notin raced) => \A i \in DOMAIN issuers : issuers[i] # curator[c].about
    /\ ~curator[c].overtaken => curator[c].seen = issuerOf[curator[c].listing]

\* A listing mapped to a name has an issuer of that name.
ListingsHaveTheirIssuer ==
  \A l \in Listings : mapped[l] # NoIssuer =>
    (issuerOf[l] \in DOMAIN issuers /\ issuers[issuerOf[l]] = mapped[l])

IssuersShape ==
  /\ DOMAIN curator = Curators
  /\ issuers \in Seq(Names)
  /\ DOMAIN issuerOf = Listings /\ DOMAIN mapped = Listings

Mapped ==
  IssuersShape /\ AddersAreKnown /\ NamesAreUnique /\ LookupsAreCurrent /\ ListingsHaveTheirIssuer

-----------------------------------------------------------------------------
(* Identity: classification *)

LEMMA ClassifiedInit == IdentityInit => Classified
BY DEF IdentityInit, Classified, ClassificationShape, OverlapsAreKnown, ReadsAreCurrent,
       RowsTellWhatWasSaid, RowsInUse, Rested, NoFact, Busy, Writing, Provenances

\* Rows stay, and so do the requests that write one.
LEMMA OthersAreClassified ==
  ASSUME Classified, UNCHANGED <<facts, said>>, raced \subseteq raced', DOMAIN curator' = Curators,
         \A d \in Curators : Writing(d)' => (Writing(d) /\ curator'[d] = curator[d])
  PROVE  Classified'
<1>1. OverlapsAreKnown'
  BY DEF Classified, OverlapsAreKnown
<1>2. ReadsAreCurrent'
  BY DEF Classified, ReadsAreCurrent, Writing
<1> QED
  BY <1>1, <1>2 DEF Classified, ClassificationShape, RowsTellWhatWasSaid, RowsInUse

\* A request that has read the row it will write.
LEMMA BeginIsClassified ==
  ASSUME Classified, NEW c \in Curators, NEW s, Begins(c, s), UNCHANGED <<facts, said>>,
         raced' = raced \cup RacedFor(s.about),
         s.about \in {"derived", "manual_override"} /\ s.seen = facts[s.about],
         s.at = "recording" => s.value \in Values,
         s.at = "retracting" => (s.about = "manual_override" /\ s.seen.value # NoValue)
  PROVE  Classified'
<1>1. /\ DOMAIN curator' = Curators /\ curator'[c] = s
      /\ \A d \in Curators \ {c} : curator'[d] = curator[d]
  BY DEF Begins, Classified, ClassificationShape
<1>2. raced \subseteq raced'
  OBVIOUS
<1>3. \A d \in Curators \ {c} : (Writing(d) /\ curator[d].about = s.about) => s.about \in raced'
  BY DEF RacedFor
<1>4. OverlapsAreKnown'
  BY <1>1, <1>2, <1>3 DEF Classified, OverlapsAreKnown, Writing
<1>5. ReadsAreCurrent'
  BY <1>1, <1>2 DEF Classified, ReadsAreCurrent, Writing
<1> QED
  BY <1>1, <1>2, <1>4, <1>5 DEF Classified, ClassificationShape, RowsTellWhatWasSaid, RowsInUse

\* A request that writes the row it read, and ends.
LEMMA WriteIsClassified ==
  ASSUME Classified, NEW c \in Curators, Writing(c),
         curator' = [curator EXCEPT ![c] = Rested], UNCHANGED raced,
         DOMAIN facts' = Provenances, DOMAIN said' = Provenances,
         \A p \in Provenances \ {curator[c].about} : facts'[p] = facts[p] /\ said'[p] = said[p],
         facts'[curator[c].about] \in [value: Values \cup {NoValue}, retracted: BOOLEAN],
         curator[c].about = "derived" => facts'["derived"].retracted = FALSE,
         curator[c].about \notin raced =>
           said'[curator[c].about] = IF facts'[curator[c].about].retracted THEN NoValue
                                     ELSE facts'[curator[c].about].value
  PROVE  Classified'
<1> DEFINE a == curator[c].about
<1>1. a \in {"derived", "manual_override"}
  BY DEF Classified, ReadsAreCurrent
<1>2. /\ OverlapsAreKnown' /\ DOMAIN curator' = Curators /\ curator'[c].at = "rested"
      /\ \A d \in Curators \ {c} : curator'[d] = curator[d]
  BY DEF Classified, ClassificationShape, OverlapsAreKnown, Writing, Rested
<1>3. ClassificationShape'
  BY <1>1, <1>2 DEF Classified, ClassificationShape
<1>4. RowsInUse'
  BY <1>1 DEF Classified, RowsInUse, Provenances
<1>5. RowsTellWhatWasSaid'
  BY DEF Classified, RowsTellWhatWasSaid
<1>6. \A d \in Curators \ {c} : (Writing(d) /\ curator[d].about = a) => a \in raced
  BY DEF Classified, OverlapsAreKnown, Busy, Writing
<1>7. ASSUME NEW d \in Curators, Writing(d)'
      PROVE  /\ curator'[d] = curator[d] /\ Writing(d)
             /\ curator[d].about \notin raced => facts'[curator[d].about] = facts[curator[d].about]
  <2>1. d # c
    BY <1>2, <1>7 DEF Writing
  <2>2. curator'[d] = curator[d] /\ Writing(d)
    BY <1>2, <1>7, <2>1 DEF Writing
  <2>3. curator[d].about \in Provenances
    BY <2>2 DEF Classified, ReadsAreCurrent, Provenances
  <2> QED
    BY <1>6, <2>1, <2>2, <2>3
<1>8. ReadsAreCurrent'
  BY <1>7 DEF Classified, ReadsAreCurrent
<1> QED
  BY <1>2, <1>3, <1>4, <1>5, <1>8 DEF Classified

LEMMA ClassifiedNext == (Classified /\ [IdentityNext]_identityVars) => Classified'
<1> SUFFICES ASSUME Classified, [IdentityNext]_identityVars PROVE Classified'
  OBVIOUS
<1>1. ASSUME NEW c \in Curators, NEW p \in Provenances, NEW value \in Values, ReadFact(c, p, value)
      PROVE  Classified'
  <2> DEFINE s == [at |-> "recording", about |-> p, seen |-> facts[p], value |-> value]
  <2>1. /\ Begins(c, s) /\ p \in {"derived", "manual_override"} /\ raced' = raced \cup RacedFor(p)
        /\ UNCHANGED <<facts, said>>
    BY <1>1 DEF ReadFact
  <2>2. s.at = "recording" /\ s.about = p /\ s.seen = facts[p] /\ s.value = value
    OBVIOUS
  <2> HIDE DEF s
  <2> QED
    BY <2>1, <2>2, BeginIsClassified
<1>2. ASSUME NEW c \in Curators, ReadRetraction(c)
      PROVE  Classified'
  <2> DEFINE s == [at |-> "retracting", about |-> "manual_override", seen |-> facts["manual_override"]]
  <2>1. /\ Begins(c, s) /\ facts["manual_override"].value # NoValue
        /\ raced' = raced \cup RacedFor("manual_override") /\ UNCHANGED <<facts, said>>
    BY <1>2 DEF ReadRetraction
  <2>2. s.at = "retracting" /\ s.about = "manual_override" /\ s.seen = facts["manual_override"]
    OBVIOUS
  <2> HIDE DEF s
  <2> QED
    BY <2>1, <2>2, BeginIsClassified
<1>3. ASSUME NEW c \in Curators, WriteFact(c)
      PROVE  Classified'
  <2> DEFINE s == curator[c]
             a == s.about
             row == Upserted(facts[a], s.seen, s.value)
             written == s.seen.value = NoValue => facts[a].value = NoValue
  <2>1. /\ s.at = "recording" /\ Writing(c)
        /\ a \in {"derived", "manual_override"} /\ s.value \in Values
        /\ a \notin raced => s.seen = facts[a]
    BY <1>3 DEF WriteFact, Writing, Classified, ReadsAreCurrent
  <2>2. /\ facts' = IF ~written THEN facts ELSE [facts EXCEPT ![a] = row]
        /\ said' = IF written THEN [said EXCEPT ![a] = s.value] ELSE said
        /\ curator' = [curator EXCEPT ![c] = Rested] /\ UNCHANGED raced
    BY <1>3 DEF WriteFact
  <2>3. a \in Provenances /\ facts[a] \in [value: Values \cup {NoValue}, retracted: BOOLEAN]
    BY <2>1 DEF Classified, ClassificationShape, Provenances
  <2>4. /\ DOMAIN facts' = Provenances /\ DOMAIN said' = Provenances
        /\ \A p \in Provenances \ {a} : facts'[p] = facts[p] /\ said'[p] = said[p]
        /\ facts'[a] = IF written THEN row ELSE facts[a]
        /\ said'[a] = IF written THEN s.value ELSE said[a]
    BY <2>2, <2>3 DEF Classified, ClassificationShape
  <2>5. /\ row \in [value: Values \cup {NoValue}, retracted: BOOLEAN]
        /\ facts[a].retracted = FALSE => row.retracted = FALSE
    BY <2>1, <2>3 DEF Upserted
  <2>6. a \notin raced => (written /\ row.value = s.value /\ row.retracted = FALSE)
    BY <2>1, <2>3 DEF Upserted
  <2>7. a = "derived" => facts[a].retracted = FALSE
    BY DEF Classified, RowsInUse
  <2> HIDE DEF row, written, s
  <2>8. a = "derived" => facts'["derived"].retracted = FALSE
    BY <2>4, <2>5, <2>7
  <2>9. a \notin raced => said'[a] = IF facts'[a].retracted THEN NoValue ELSE facts'[a].value
    BY <2>4, <2>6
  <2>10. facts'[a] \in [value: Values \cup {NoValue}, retracted: BOOLEAN]
    BY <2>3, <2>4, <2>5
  <2> QED
    BY <2>1, <2>2, <2>4, <2>8, <2>9, <2>10, WriteIsClassified DEF s
<1>4. ASSUME NEW c \in Curators, WriteRetraction(c)
      PROVE  Classified'
  <2> DEFINE m == "manual_override"
             row == IF curator[c].seen.retracted THEN facts[m] ELSE [facts[m] EXCEPT !.retracted = TRUE]
  <2>1. /\ Writing(c) /\ curator[c].about = m
        /\ m \notin raced => curator[c].seen = facts[m]
    BY <1>4 DEF WriteRetraction, Writing, Classified, ReadsAreCurrent
  <2>2. /\ curator' = [curator EXCEPT ![c] = Rested] /\ UNCHANGED raced
        /\ facts' = IF curator[c].seen.retracted THEN facts ELSE [facts EXCEPT ![m].retracted = TRUE]
        /\ said' = [said EXCEPT ![m] = NoValue]
    BY <1>4 DEF WriteRetraction
  <2>3. m \in Provenances /\ facts[m] \in [value: Values \cup {NoValue}, retracted: BOOLEAN]
    BY DEF Classified, ClassificationShape, Provenances
  <2>4. /\ DOMAIN facts' = Provenances /\ DOMAIN said' = Provenances
        /\ \A p \in Provenances \ {m} : facts'[p] = facts[p] /\ said'[p] = said[p]
        /\ facts'[m] = row /\ said'[m] = NoValue
    BY <2>2, <2>3 DEF Classified, ClassificationShape
  <2>5. row \in [value: Values \cup {NoValue}, retracted: BOOLEAN]
    BY <2>3
  <2>6. m \notin raced => row.retracted = TRUE
    BY <2>1, <2>3
  <2> HIDE DEF row
  <2> QED
    BY <2>1, <2>2, <2>4, <2>5, <2>6, WriteIsClassified
<1>5. ASSUME NEW c \in Curators, NEW l \in Listings, ReadInstrument(c, l)
      PROVE  Classified'
  <2>1. \A at, name, i : MappingRequest(at, l, name, i).at = at
    BY DEF MappingRequest
  <2>2. PICK s : s.at \in {"located", "mapping"} /\ Begins(c, s)
    BY <1>5, <2>1 DEF ReadInstrument
  <2>3. \A d \in Curators : Writing(d)' => (Writing(d) /\ curator'[d] = curator[d])
    BY <2>2 DEF Begins, Writing, Classified, ClassificationShape
  <2> QED
    BY <1>5, <2>2, <2>3, OthersAreClassified DEF ReadInstrument, Begins, Classified, ClassificationShape
<1>6. ASSUME NEW c \in Curators, ReadIssuer(c)
      PROVE  Classified'
  <2>1. PICK i : curator' = [curator EXCEPT ![c].at = "mapping", ![c].issuer = i]
    BY <1>6 DEF ReadIssuer
  <2>2. curator'[c].at = "mapping" /\ \A d \in Curators \ {c} : curator'[d] = curator[d]
    BY <2>1 DEF Classified, ClassificationShape
  <2>3. \A d \in Curators : Writing(d)' => (Writing(d) /\ curator'[d] = curator[d])
    BY <2>2 DEF Writing
  <2>4. raced \subseteq raced' /\ UNCHANGED <<facts, said>> /\ DOMAIN curator' = Curators
    BY <1>6, <2>1 DEF ReadIssuer, Classified, ClassificationShape
  <2> QED
    BY <2>3, <2>4, OthersAreClassified
<1>7. ASSUME NEW c \in Curators, WriteIssuer(c)
      PROVE  Classified'
  <2>1. EndsMapping(c) /\ UNCHANGED <<raced, facts, said>>
    BY <1>7 DEF WriteIssuer
  <2>2. DOMAIN curator' = Curators
    BY <2>1 DEF EndsMapping
  <2>3. ASSUME NEW d \in Curators, Writing(d)'
        PROVE  Writing(d) /\ curator'[d] = curator[d]
    <3>1. d # c
      BY <2>1, <2>3 DEF EndsMapping, Rested, Writing
    <3>2. ~Mapping(d)
      BY <2>1, <2>3, <3>1 DEF EndsMapping, Mapping, Writing
    <3> QED
      BY <2>1, <2>3, <3>1, <3>2 DEF EndsMapping, Writing
  <2> QED
    BY <2>1, <2>2, <2>3, OthersAreClassified
<1>8. CASE UNCHANGED identityVars
  BY <1>8, OthersAreClassified DEF identityVars, Classified, ClassificationShape, Writing
<1> QED
  BY <1>1, <1>2, <1>3, <1>4, <1>5, <1>6, <1>7, <1>8 DEF IdentityNext, ClassificationNext, IssuersNext

\* The override has the highest rank, so it is chosen if it stands.
LEMMA TheOverrideWins ==
  ASSUME Classified, raced \cap Provenances = {}
  PROVE  Resolved = IF said["manual_override"] # NoValue THEN said["manual_override"] ELSE said["derived"]
<1> USE DEF Provenances
<1>1. /\ said["manual_override"] = IF facts["manual_override"].retracted THEN NoValue ELSE facts["manual_override"].value
      /\ said["derived"] = facts["derived"].value
  BY DEF Classified, RowsTellWhatWasSaid, RowsInUse
<1>2. /\ "manual_override" \in Standing <=> said["manual_override"] # NoValue
      /\ "derived" \in Standing <=> said["derived"] # NoValue
      /\ Standing \subseteq {"manual_override", "derived"}
  BY <1>1 DEF Standing, Classified, RowsInUse, NoFact
<1>3. Rank("manual_override") = 40 /\ Rank("derived") = 10
  BY DEF Rank
<1> DEFINE Best(p) == \A q \in Standing : Rank(q) <= Rank(p)
           best == CHOOSE p \in Standing : Best(p)
<1>4. CASE "manual_override" \in Standing
  <2>1. Best("manual_override")
    BY <1>2, <1>3
  <2>2. best \in Standing /\ Best(best)
    BY <1>4, <2>1
  <2> HIDE DEF best
  <2>3. best = "manual_override"
    <3>1. Rank("manual_override") <= Rank(best)
      BY <1>4, <2>2
    <3>2. best # "derived"
      BY <1>3, <3>1
    <3> QED
      BY <1>2, <2>2, <3>2
  <2>4. Resolved = facts["manual_override"].value
    BY <1>4, <2>3 DEF Resolved, best
  <2>5. said["manual_override"] = facts["manual_override"].value
    BY <1>1, <1>2, <1>4 DEF Standing
  <2> QED
    BY <1>2, <1>4, <2>4, <2>5
<1>5. CASE "manual_override" \notin Standing /\ "derived" \in Standing
  <2>1. Standing = {"derived"}
    BY <1>2, <1>5
  <2>2. Best("derived")
    BY <1>3, <2>1
  <2>3. best \in Standing
    BY <1>5, <2>2
  <2>4. Resolved = facts[best].value
    BY <1>5 DEF Resolved
  <2> QED
    BY <1>1, <1>2, <1>5, <2>1, <2>3, <2>4
<1>6. CASE Standing = {}
  BY <1>2, <1>6 DEF Resolved
<1> QED
  BY <1>2, <1>4, <1>5, <1>6

\* resolve_classification: whatever the order and the overlaps of refreshes,
\* overrides and retractions, the standing override or else the last refresh
\* wins, unless two requests wrote one row at a time.
THEOREM LastWordWins == IdentitySpec => []WinnerIsTheLastWord
<1>1. IdentityInit => Classified
  BY ClassifiedInit
<1>2. (Classified /\ [IdentityNext]_identityVars) => Classified'
  BY ClassifiedNext
<1>3. Classified => WinnerIsTheLastWord
  BY TheOverrideWins DEF WinnerIsTheLastWord
<1> QED
  BY <1>1, <1>2, <1>3, PTL DEF IdentitySpec, IdentityNext
-----------------------------------------------------------------------------
(* Identity: issuers *)

LEMMA MappedInit == IdentityInit => Mapped
BY DEF IdentityInit, Mapped, IssuersShape, AddersAreKnown, NamesAreUnique, LookupsAreCurrent,
       ListingsHaveTheirIssuer, Rested, Adding, Mapping

\* Issuers and listings stay, and so do the mappings under way.
LEMMA OthersAreMapped ==
  ASSUME Mapped, UNCHANGED <<issuers, issuerOf, mapped>>, raced \subseteq raced', DOMAIN curator' = Curators,
         \A d \in Curators : curator'[d].at \in {"located", "mapping"} => curator'[d] = curator[d]
  PROVE  Mapped'
<1>1. \A d \in Curators : Adding(d)' => (Adding(d) /\ curator'[d] = curator[d])
  BY DEF Adding
<1>2. \A d \in Curators : Mapping(d)' => (Mapping(d) /\ curator'[d] = curator[d])
  BY DEF Mapping
<1>3. AddersAreKnown'
  BY <1>1 DEF Mapped, AddersAreKnown
<1>4. LookupsAreCurrent'
  BY <1>1, <1>2 DEF Mapped, LookupsAreCurrent
<1> QED
  BY <1>3, <1>4 DEF Mapped, IssuersShape, NamesAreUnique, ListingsHaveTheirIssuer

LEMMA InstrumentIsMapped ==
  ASSUME Mapped, NEW c \in Curators, NEW l \in Listings, ReadInstrument(c, l)
  PROVE  Mapped'
<1>1. PICK at, name, i :
        /\ Begins(c, MappingRequest(at, l, name, i)) /\ name \in Names
        /\ \/ at = "located" /\ i = NoIssuer
           \/ at = "mapping" /\ i \in DOMAIN issuers /\ issuers[i] = name
  <2>1. \A i \in DOMAIN issuers : issuers[i] \in Names
    BY DEF Mapped, IssuersShape
  <2>2. CASE \E name \in Names : Begins(c, MappingRequest("located", l, name, NoIssuer))
    BY <2>2
  <2>3. CASE \E i \in DOMAIN issuers : Begins(c, MappingRequest("mapping", l, issuers[i], i))
    BY <2>1, <2>3
  <2> QED
    BY <2>2, <2>3 DEF ReadInstrument
<1>2. UNCHANGED <<issuers, issuerOf, mapped, raced>>
  BY DEF ReadInstrument
<1>3. NoIssuer \notin DOMAIN issuers
  BY IdentityAssumption DEF Mapped, IssuersShape
<1>4. /\ DOMAIN curator' = Curators
      /\ \A d \in Curators \ {c} : curator'[d] = curator[d]
      /\ curator'[c].at = at /\ curator'[c].about = name /\ curator'[c].listing = l
      /\ curator'[c].issuer = i /\ curator'[c].seen = issuerOf[l]
  BY <1>1 DEF Begins, MappingRequest, Mapped, IssuersShape
<1>5. ~Adding(c)' /\ \A d \in Curators \ {c} : (Adding(d)' <=> Adding(d)) /\ (Mapping(d)' <=> Mapping(d))
  BY <1>1, <1>3, <1>4 DEF Adding, Mapping
<1>6. AddersAreKnown'
  BY <1>2, <1>4, <1>5 DEF Mapped, AddersAreKnown
<1>7. ASSUME NEW d \in Curators, Mapping(d)'
      PROVE  /\ curator'[d].about \in Names /\ curator'[d].listing \in Listings
             /\ curator'[d].issuer # NoIssuer =>
                  (curator'[d].issuer \in DOMAIN issuers /\ issuers[curator'[d].issuer] = curator'[d].about)
             /\ (Adding(d)' /\ curator'[d].about \notin raced) => \A k \in DOMAIN issuers : issuers[k] # curator'[d].about
             /\ ~curator'[d].overtaken => curator'[d].seen = issuerOf[curator'[d].listing]
  <2>1. CASE d = c
    BY <1>1, <1>4, <1>5, <2>1
  <2>2. CASE d # c
    BY <1>4, <1>5, <1>7, <2>2 DEF Mapped, LookupsAreCurrent
  <2> QED
    BY <2>1, <2>2
<1>8. LookupsAreCurrent'
  BY <1>2, <1>7 DEF LookupsAreCurrent
<1> QED
  BY <1>2, <1>4, <1>6, <1>8 DEF Mapped, IssuersShape, NamesAreUnique, ListingsHaveTheirIssuer

LEMMA LookupIsMapped ==
  ASSUME Mapped, NEW c \in Curators, ReadIssuer(c)
  PROVE  Mapped'
<1> DEFINE name == curator[c].about
<1>1. PICK i \in IssuersNamed(name) :
        /\ curator' = [curator EXCEPT ![c].at = "mapping", ![c].issuer = i]
        /\ raced' = raced \cup {a \in {name} : i = NoIssuer /\ \E d \in Curators : Adding(d) /\ curator[d].about = a}
  BY DEF ReadIssuer
<1>2. curator[c].at = "located" /\ UNCHANGED <<issuers, issuerOf, mapped>>
  BY DEF ReadIssuer
<1>3. Mapping(c) /\ name \in Names /\ curator[c].listing \in Listings
      /\ (~curator[c].overtaken => curator[c].seen = issuerOf[curator[c].listing])
  BY <1>2 DEF Mapped, LookupsAreCurrent, Mapping
<1>4. /\ DOMAIN curator' = Curators
      /\ \A d \in Curators \ {c} : curator'[d] = curator[d]
  BY <1>1 DEF Mapped, IssuersShape
<1>5. curator'[c] = [curator[c] EXCEPT !.at = "mapping", !.issuer = i]
  BY <1>1 DEF Mapped, IssuersShape
<1> HIDE DEF name
<1>6. /\ i # NoIssuer => (i \in DOMAIN issuers /\ issuers[i] = name)
      /\ i = NoIssuer => \A k \in DOMAIN issuers : issuers[k] # name
  <2>1. NoIssuer \notin DOMAIN issuers
    BY IdentityAssumption DEF Mapped, IssuersShape
  <2> QED
    BY <1>1, <2>1 DEF IssuersNamed
<1>7. raced \subseteq raced' /\ \A d \in Curators : (i = NoIssuer /\ Adding(d) /\ curator[d].about = name) => name \in raced'
  BY <1>1
<1>8. /\ curator'[c].at \in {"located", "mapping"} /\ curator'[c].about = name
      /\ curator'[c].listing = curator[c].listing /\ curator'[c].seen = curator[c].seen
      /\ curator'[c].overtaken = curator[c].overtaken
      /\ Adding(c)' => i = NoIssuer
      /\ curator'[c].issuer # NoIssuer => (i # NoIssuer /\ curator'[c].issuer = i)
  BY <1>2, <1>5 DEF Adding, name
<1>9. \A d \in Curators \ {c} : (Adding(d)' <=> Adding(d)) /\ (Mapping(d)' <=> Mapping(d))
  BY <1>4 DEF Adding, Mapping
<1>10. AddersAreKnown'
  BY <1>4, <1>7, <1>8, <1>9 DEF Mapped, AddersAreKnown
<1>11. ASSUME NEW d \in Curators, Mapping(d)'
      PROVE  /\ curator'[d].about \in Names /\ curator'[d].listing \in Listings
             /\ curator'[d].issuer # NoIssuer =>
                  (curator'[d].issuer \in DOMAIN issuers /\ issuers[curator'[d].issuer] = curator'[d].about)
             /\ (Adding(d)' /\ curator'[d].about \notin raced') => \A k \in DOMAIN issuers : issuers[k] # curator'[d].about
             /\ ~curator'[d].overtaken => curator'[d].seen = issuerOf[curator'[d].listing]
  <2>1. CASE d = c
    BY <1>3, <1>6, <1>8, <2>1
  <2>2. CASE d # c
    BY <1>4, <1>7, <1>9, <1>11, <2>2 DEF Mapped, LookupsAreCurrent
  <2> QED
    BY <2>1, <2>2
<1>12. LookupsAreCurrent'
  BY <1>2, <1>11 DEF LookupsAreCurrent
<1> QED
  BY <1>2, <1>4, <1>7, <1>10, <1>12 DEF Mapped, IssuersShape, NamesAreUnique, ListingsHaveTheirIssuer

LEMMA WriteIsMapped ==
  ASSUME Mapped, NEW c \in Curators, WriteIssuer(c)
  PROVE  Mapped'
<1> DEFINE s == curator[c]
           new == Adding(c)
           chosen == IF new THEN Len(issuers) + 1 ELSE s.issuer
           lost == s.overtaken /\ chosen = s.seen
<1>1. /\ s.at = "mapping" /\ UNCHANGED raced
      /\ issuers' = IF new THEN Append(issuers, s.about) ELSE issuers
      /\ issuerOf' = [issuerOf EXCEPT ![s.listing] = IssuerWritten(@, s.seen, chosen)]
      /\ mapped' = [mapped EXCEPT ![s.listing] = IF lost THEN NoIssuer ELSE s.about]
      /\ EndsMapping(c)
  BY DEF WriteIssuer
<1>2. /\ s.about \in Names /\ s.listing \in Listings
      /\ ~new => (s.issuer \in DOMAIN issuers /\ issuers[s.issuer] = s.about)
      /\ (new /\ s.about \notin raced) => \A i \in DOMAIN issuers : issuers[i] # s.about
      /\ ~s.overtaken => s.seen = issuerOf[s.listing]
  BY <1>1 DEF Mapped, LookupsAreCurrent, Mapping, Adding
<1>3. /\ DOMAIN curator' = Curators /\ curator'[c].at = "rested"
      /\ \A d \in Curators \ {c} :
           /\ (~Mapping(d) \/ curator[d].listing # s.listing) => curator'[d] = curator[d]
           /\ (Mapping(d) /\ curator[d].listing = s.listing) => curator'[d] = [curator[d] EXCEPT !.overtaken = TRUE]
  BY <1>1 DEF EndsMapping, Rested, Mapping
<1>4. issuers \in Seq(Names)
  BY DEF Mapped, IssuersShape
<1>5. /\ issuers' \in Seq(Names)
      /\ \A i \in DOMAIN issuers : i \in DOMAIN issuers' /\ issuers'[i] = issuers[i]
      /\ chosen \in DOMAIN issuers' /\ issuers'[chosen] = s.about
      /\ \A i \in DOMAIN issuers' : i \in DOMAIN issuers \/ (new /\ i = chosen)
  <2> HIDE DEF s
  <2>1. CASE new
    BY <1>1, <1>2, <1>4, <2>1
  <2>2. CASE ~new
    BY <1>1, <1>2, <1>4, <2>2
  <2> QED
    BY <2>1, <2>2
<1>6. ~lost => issuerOf'[s.listing] = chosen
  BY <1>1, <1>2 DEF IssuerWritten, Mapped, IssuersShape
<1>7. /\ \A l \in Listings : l # s.listing => (issuerOf'[l] = issuerOf[l] /\ mapped'[l] = mapped[l])
      /\ mapped'[s.listing] = IF lost THEN NoIssuer ELSE s.about
      /\ DOMAIN issuerOf' = Listings /\ DOMAIN mapped' = Listings
  BY <1>1, <1>2 DEF Mapped, IssuersShape
<1> HIDE DEF s, new, chosen, lost
<1>8. IssuersShape'
  BY <1>3, <1>5, <1>7 DEF IssuersShape
<1>9. NamesAreUnique'
  BY <1>1, <1>2, <1>5 DEF Mapped, NamesAreUnique
<1>10. ListingsHaveTheirIssuer'
  BY <1>5, <1>6, <1>7 DEF Mapped, ListingsHaveTheirIssuer
<1>11. ASSUME NEW d \in Curators, Mapping(d)'
       PROVE  /\ d # c /\ Mapping(d) /\ (Adding(d)' <=> Adding(d))
              /\ curator'[d].about = curator[d].about /\ curator'[d].listing = curator[d].listing
              /\ curator'[d].issuer = curator[d].issuer /\ curator'[d].seen = curator[d].seen
              /\ (~curator'[d].overtaken) => (~curator[d].overtaken /\ curator[d].listing # s.listing)
  <2>1. d # c
    BY <1>3, <1>11 DEF Mapping
  <2>2. CASE ~Mapping(d) \/ curator[d].listing # s.listing
    <3>1. curator'[d] = curator[d]
      BY <1>3, <2>1, <2>2
    <3>2. Mapping(d)
      BY <1>11, <3>1 DEF Mapping
    <3> QED
      BY <2>1, <2>2, <3>1, <3>2 DEF Adding
  <2>3. CASE Mapping(d) /\ curator[d].listing = s.listing
    <3>1. curator'[d] = [curator[d] EXCEPT !.overtaken = TRUE]
      BY <1>3, <2>1, <2>3
    <3> QED
      BY <2>1, <2>3, <3>1 DEF Adding
  <2> QED
    BY <2>2, <2>3
<1>12. AddersAreKnown'
  <2>1. \A d \in Curators : Adding(d)' => Mapping(d)'
    BY DEF Adding, Mapping
  <2> QED
    BY <1>1, <1>11, <2>1 DEF Mapped, AddersAreKnown
<1>13. ASSUME NEW d \in Curators, Mapping(d)'
       PROVE  /\ curator'[d].about \in Names /\ curator'[d].listing \in Listings
              /\ curator'[d].issuer # NoIssuer =>
                   (curator'[d].issuer \in DOMAIN issuers' /\ issuers'[curator'[d].issuer] = curator'[d].about)
              /\ (Adding(d)' /\ curator'[d].about \notin raced') => \A k \in DOMAIN issuers' : issuers'[k] # curator'[d].about
              /\ ~curator'[d].overtaken => curator'[d].seen = issuerOf'[curator'[d].listing]
  <2>1. (Adding(d) /\ new /\ curator[d].about = s.about) => s.about \in raced
    BY <1>11, <1>13 DEF Mapped, AddersAreKnown, new, s
  <2>2. /\ curator[d].about \in Names /\ curator[d].listing \in Listings
        /\ curator[d].issuer # NoIssuer =>
             (curator[d].issuer \in DOMAIN issuers /\ issuers[curator[d].issuer] = curator[d].about)
        /\ (Adding(d) /\ curator[d].about \notin raced) => \A k \in DOMAIN issuers : issuers[k] # curator[d].about
        /\ ~curator[d].overtaken => curator[d].seen = issuerOf[curator[d].listing]
    BY <1>11, <1>13 DEF Mapped, LookupsAreCurrent
  <2> QED
    BY <1>1, <1>5, <1>7, <1>11, <1>13, <2>1, <2>2
<1>14. LookupsAreCurrent'
  BY <1>13 DEF LookupsAreCurrent
<1> QED
  BY <1>8, <1>9, <1>10, <1>12, <1>14 DEF Mapped

LEMMA MappedNext == (Mapped /\ [IdentityNext]_identityVars) => Mapped'
<1> SUFFICES ASSUME Mapped, [IdentityNext]_identityVars PROVE Mapped'
  OBVIOUS
<1>1. ASSUME NEW c \in Curators, NEW s, curator' = [curator EXCEPT ![c] = s],
             s.at \notin {"located", "mapping"}, raced \subseteq raced', UNCHANGED <<issuers, issuerOf, mapped>>
      PROVE  Mapped'
  BY <1>1, OthersAreMapped DEF Mapped, IssuersShape
<1>2. ASSUME NEW c \in Curators, NEW p \in Provenances, NEW value \in Values, ReadFact(c, p, value)
      PROVE  Mapped'
  <2> DEFINE s == [at |-> "recording", about |-> p, seen |-> facts[p], value |-> value]
  <2>1. /\ curator' = [curator EXCEPT ![c] = s] /\ s.at = "recording"
        /\ raced \subseteq raced' /\ UNCHANGED <<issuers, issuerOf, mapped>>
    BY <1>2 DEF ReadFact, Begins
  <2> HIDE DEF s
  <2> QED
    BY <1>1, <2>1
<1>3. ASSUME NEW c \in Curators, ReadRetraction(c)
      PROVE  Mapped'
  <2> DEFINE s == [at |-> "retracting", about |-> "manual_override", seen |-> facts["manual_override"]]
  <2>1. /\ curator' = [curator EXCEPT ![c] = s] /\ s.at = "retracting"
        /\ raced \subseteq raced' /\ UNCHANGED <<issuers, issuerOf, mapped>>
    BY <1>3 DEF ReadRetraction, Begins
  <2> HIDE DEF s
  <2> QED
    BY <1>1, <2>1
<1>4. ASSUME NEW c \in Curators, WriteFact(c) \/ WriteRetraction(c)
      PROVE  Mapped'
  BY <1>1, <1>4 DEF WriteFact, WriteRetraction, Rested
<1>5. CASE UNCHANGED identityVars
  BY <1>5, OthersAreMapped DEF identityVars, Mapped, IssuersShape
<1> QED
  BY <1>2, <1>3, <1>4, <1>5, InstrumentIsMapped, LookupIsMapped, WriteIsMapped
     DEF IdentityNext, ClassificationNext, IssuersNext

\* map_issuer: listings mapped to one company, by name or by id, are of one issuer
\* of that company, however mappings overlap, but for the two cases in which the
\* code loses one: two find no issuer of the name, or one writes back the issuer
\* it read of a listing that was mapped elsewhere meanwhile.
THEOREM MappingsAgree == IdentitySpec => []ListingsShareTheIssuer
<1>1. IdentityInit => Mapped
  BY MappedInit
<1>2. (Mapped /\ [IdentityNext]_identityVars) => Mapped'
  BY MappedNext
<1>3. Mapped => ListingsShareTheIssuer
  BY DEF Mapped, NamesAreUnique, ListingsHaveTheirIssuer, ListingsShareTheIssuer
<1> QED
  BY <1>1, <1>2, <1>3, PTL DEF IdentitySpec, IdentityNext

-----------------------------------------------------------------------------
(* Tables and series *)

\* A spec of groups, reports and series moves the groups as GroupsSpec does.
LEMMA NavNextIsGroupsNext ==
  ASSUME [NavNext]_<<groupVars, reportVars, navVars>>
  PROVE  [GroupsNext]_groupVars
BY DEF NavNext, GroupsNext, DeletesPortfolio, DeletePortfolio

ClockOK == moment \in GroupStart..GroupHorizon

JournalOK ==
  /\ IsFiniteSet(entries)
  /\ \A e \in entries : e.at \in Nat /\ e.amount \in Int
  /\ posting.at = "stamped" => (posting.when \in Nat /\ posting.move \in Movements)

StoredOK ==
  /\ IsFiniteSet(stored)
  /\ \A row \in stored :
       /\ row.portfolio \in existing /\ row.day \in Nat /\ row.asOf \in 0..moment
       /\ row.cash \in Int /\ row.securities \in Nat /\ row.partial \in BOOLEAN /\ row.knows \in Nat
  /\ \A a, b \in stored : (a.portfolio = b.portfolio /\ a.day = b.day) => a = b

SeriesOK ==
  /\ series.at \in {"none", "members", "snapshots", "done"}
  /\ series.at \in {"snapshots", "done"} =>
       (IsFiniteSet(series.found) /\ \A row \in series.found : row.day \in Nat)
  /\ series.at = "done" => \A p \in DOMAIN series.entered : series.entered[p] \in Int

NavInv == GroupsInv /\ ClockOK /\ JournalOK /\ StoredOK /\ SeriesOK

LEMMA DaysAre ==
  ASSUME NEW t \in Nat
  PROVE  DayOf(t) \in Nat
BY NavSeriesAssumption DEF DayOf

LEMMA DayEndsAre ==
  ASSUME NEW d \in Nat
  PROVE  DayEnd(d) \in Nat
<1>1. DayTicks \in Nat /\ DayTicks >= 1 /\ d + 1 >= 1
  BY NavSeriesAssumption
<1>2. (d + 1) * DayTicks \in Nat /\ (d + 1) * DayTicks = d * DayTicks + DayTicks /\ d * DayTicks \in Nat
  BY <1>1
<1> QED
  BY <1>1, <1>2 DEF DayEnd

LEMMA NavInvInit == (GroupsInit /\ ReportsInit /\ NavInit) => NavInv
<1> SUFFICES ASSUME GroupsInit, ReportsInit, NavInit PROVE NavInv
  OBVIOUS
<1>1. GroupsInv
  BY GroupsInvInit
<1>2. ClockOK
  BY GroupsAssumption DEF GroupsInit, ClockOK
<1>3. JournalOK
  BY FS_EmptySet DEF ReportsInit, JournalOK, NoPosting
<1>4. StoredOK /\ SeriesOK
  BY FS_EmptySet DEF NavInit, StoredOK, SeriesOK, NoSeries
<1> QED
  BY <1>1, <1>2, <1>3, <1>4 DEF NavInv

LEMMA TransferredIs ==
  ASSUME NEW p, NEW cutoff, JournalOK
  PROVE  Transferred(p, cutoff) \in Int
<1> DEFINE S == {e \in entries : e.portfolio = p /\ e.at <= cutoff}
           amounts == [e \in S |-> e.amount]
<1>1. IsFiniteSet(S)
  BY FS_Subset DEF JournalOK
<1>2. \A e \in S : amounts[e] \in Int
  BY DEF JournalOK
<1>3. Transferred(p, cutoff) = SumOn(amounts, S)
  BY ZenonT(40) DEF Transferred, SumOf, SumOn, MapThenSumSet, MapThenFoldSet
<1> HIDE DEF S, amounts
<1> QED
  BY <1>1, <1>2, <1>3, SumOnInt

LEMMA CashAtIs ==
  ASSUME NEW p \in Portfolios, NEW cutoff, JournalOK
  PROVE  CashAt(p, cutoff) \in Int
<1>1. Opening[p] \in Int
  BY ConsolidationAssumption
<1> QED
  BY <1>1, TransferredIs DEF CashAt

\* What a snapshot says of its portfolio.
LEMMA SnapshotOK ==
  ASSUME NavInv, NEW p \in existing, NEW d \in 0 .. DayOf(moment), NEW gaps
  PROVE  LET asOf == Min({DayEnd(d), moment})
             priced == {h \in HoldingAt(p, asOf) : h.ticker \notin gaps}
         IN  /\ asOf \in 0..moment /\ CashAt(p, asOf) \in Int /\ EntriesKnown(p, asOf) \in Nat
             /\ SumOf(LAMBDA h : h.value, priced) \in Nat
<1> DEFINE asOf == Min({DayEnd(d), moment})
           priced == {h \in HoldingAt(p, asOf) : h.ticker \notin gaps}
           values == [h \in priced |-> h.value]
<1>1. moment \in Nat /\ p \in Portfolios
  BY DEF NavInv, GroupsInv, TablesOK
<1>2. d \in Nat /\ DayEnd(d) \in Nat
  BY <1>1, DaysAre, DayEndsAre
<1>3. asOf \in 0..moment
  BY <1>1, <1>2, MinOfTwo
<1> HIDE DEF asOf
<1>4. CashAt(p, asOf) \in Int
  BY <1>1, CashAtIs DEF NavInv
<1>5. EntriesKnown(p, asOf) \in Nat
  <2>1. IsFiniteSet({e \in entries : e.portfolio = p /\ e.at <= asOf})
    BY FS_Subset DEF NavInv, JournalOK
  <2> QED
    BY <2>1, FS_CardinalityType DEF EntriesKnown
<1>6. SumOf(LAMBDA h : h.value, priced) = SumOn(values, priced)
  BY ZenonT(40) DEF SumOf, SumOn, MapThenSumSet, MapThenFoldSet
<1>7. IsFiniteSet(priced) /\ \A h \in priced : values[h] \in Nat
  <2>1. IsFiniteSet(Holding[p]) /\ \A h \in Holding[p] : h.value \in Nat
    BY <1>1, ConsolidationAssumption
  <2>2. priced \in SUBSET Holding[p]
    BY DEF HoldingAt
  <2> QED
    BY <2>1, <2>2, FS_Subset
<1>8. SumOn(values, priced) \in Nat
  <2> HIDE DEF values, priced
  <2> QED
    BY <1>7, SumOnNat
<1> QED
  BY <1>3, <1>4, <1>5, <1>6, <1>8 DEF asOf

LEMMA ClockKept ==
  ASSUME NavInv, [NavNext]_<<groupVars, reportVars, navVars>>
  PROVE  ClockOK' /\ moment' \in {moment, moment + 1}
<1>1. [GroupsNext]_groupVars
  BY NavNextIsGroupsNext
<1>2. moment' = moment \/ (moment < GroupHorizon /\ moment' = moment + 1)
  BY <1>1 DEF GroupsNext, MembershipNext, GroupClockTicks, DeleteGroup, CreateGroup, DeleteMember,
              ReplaceMembers, ReadMembers, groupVars
<1> QED
  BY <1>2, GroupsAssumption DEF NavInv, ClockOK

\* What each action does to the tables of this module.
LEMMA NavSteps ==
  ASSUME [NavNext]_<<groupVars, reportVars, navVars>>
  PROVE  \/ UNCHANGED <<existing, reportVars, navVars>>
         \/ TransfersNext /\ UNCHANGED <<groupVars, navVars>>
         \/ UNCHANGED <<groupVars, entries, posting, navVars>>
         \/ SeriesNext /\ UNCHANGED <<groupVars, reportVars>>
         \/ \E p \in Portfolios : DeletesPortfolio(p)
<1>1. CASE MembershipNext /\ UNCHANGED <<reportVars, navVars>>
  BY <1>1 DEF MembershipNext, GroupClockTicks, DeleteGroup, CreateGroup, ReplaceMembers, ReadMembers
<1>2. CASE SummaryNext /\ UNCHANGED <<groupVars, navVars>>
  BY <1>2 DEF SummaryNext, BeginSummary, ReadPortfolio, FinishSummary
<1> QED
  BY <1>1, <1>2 DEF NavNext, groupVars, reportVars

LEMMA JournalKept ==
  ASSUME NavInv, [NavNext]_<<groupVars, reportVars, navVars>>
  PROVE  JournalOK'
<1>1. JournalOK /\ moment \in Nat
  BY DEF NavInv, GroupsInv, TablesOK
<1>2. CASE UNCHANGED <<entries, posting>>
  BY <1>1, <1>2 DEF JournalOK
<1>3. CASE CommitTransfer
  <2> DEFINE m == posting.move
             n == Cardinality(entries)
             a == [id |-> n + 1, portfolio |-> m.from, amount |-> -m.paid, at |-> posting.when]
             b == [id |-> n + 2, portfolio |-> m.to, amount |-> m.received, at |-> posting.when]
  <2>1. entries' = entries \cup {a, b} /\ posting' = [at |-> "none"] /\ posting.at = "stamped"
    BY <1>3 DEF CommitTransfer, NoPosting
  <2>2. posting.when \in Nat /\ m.paid \in Int /\ m.received \in Int
    BY <1>1, <2>1, ConsolidationAssumption DEF JournalOK
  <2>3. \A e \in {a, b} : e.at \in Nat /\ e.amount \in Int
    BY <2>2
  <2> HIDE DEF a, b
  <2>4. IsFiniteSet(entries \cup {a, b})
    <3>1. entries \cup {a, b} = (entries \cup {a}) \cup {b}
      OBVIOUS
    <3> QED
      BY <1>1, <3>1, FS_AddElement DEF JournalOK
  <2> QED
    BY <1>1, <2>1, <2>3, <2>4 DEF JournalOK
<1>4. CASE AbandonTransfer
  BY <1>1, <1>4 DEF AbandonTransfer, JournalOK, NoPosting
<1>5. ASSUME NEW m \in Movements, StampTransfer(m) PROVE JournalOK'
  <2>1. m.back \in Nat
    BY ConsolidationAssumption
  <2>2. posting' = [at |-> "stamped", move |-> m, when |-> moment - m.back] /\ entries' = entries /\ moment >= m.back
    BY <1>5 DEF StampTransfer
  <2> QED
    BY <1>1, <2>1, <2>2 DEF JournalOK
<1>6. ASSUME NEW p \in Portfolios, DeletesPortfolio(p) PROVE JournalOK'
  <2>1. entries' \in SUBSET entries /\ posting' = posting
    BY <1>6 DEF DeletesPortfolio, DeletePortfolio
  <2> QED
    BY <1>1, <2>1, FS_Subset DEF JournalOK
<1> QED
  BY <1>2, <1>3, <1>4, <1>5, <1>6, NavSteps DEF TransfersNext, reportVars

LEMMA StoredKept ==
  ASSUME NavInv, [NavNext]_<<groupVars, reportVars, navVars>>
  PROVE  StoredOK'
<1>1. StoredOK /\ moment \in Nat /\ moment' \in Nat /\ moment <= moment'
  BY ClockKept DEF NavInv, GroupsInv, TablesOK
<1>2. CASE UNCHANGED <<stored, existing>>
  BY <1>1, <1>2 DEF StoredOK
<1>3. ASSUME NEW p \in Portfolios, NEW gaps \in PriceGaps, NEW d \in 0 .. DayOf(moment), TakeSnapshot(p, d, gaps),
             UNCHANGED groupVars
      PROVE  StoredOK'
  <2> DEFINE asOf == Min({DayEnd(d), moment})
             priced == {h \in HoldingAt(p, asOf) : h.ticker \notin gaps}
             row == [portfolio |-> p, day |-> d, asOf |-> asOf, knows |-> EntriesKnown(p, asOf),
                     cash |-> CashAt(p, asOf), securities |-> SumOf(LAMBDA h : h.value, priced),
                     partial |-> \E h \in HoldingAt(p, asOf) : h.ticker \in gaps]
  <2>1. stored' = stored \cup {row} /\ p \in existing /\ Unstored(p, d)
    BY <1>3 DEF TakeSnapshot
  <2>2. /\ asOf \in 0..moment /\ CashAt(p, asOf) \in Int /\ EntriesKnown(p, asOf) \in Nat
        /\ SumOf(LAMBDA h : h.value, priced) \in Nat
    BY <2>1, SnapshotOK
  <2>3. /\ row.portfolio = p /\ row.day = d /\ row.asOf \in 0..moment
        /\ row.cash \in Int /\ row.securities \in Nat /\ row.partial \in BOOLEAN /\ row.knows \in Nat
    BY <2>2
  <2> HIDE DEF row
  <2>4. IsFiniteSet(stored')
    BY <1>1, <2>1, FS_AddElement DEF StoredOK
  <2>5. existing' = existing /\ moment' = moment /\ d \in Nat
    BY <1>1, <1>3, DaysAre DEF groupVars
  <2>6. \A r \in stored' : r \in stored \/ r = row
    BY <2>1
  <2>7. \A r \in stored : r.portfolio # p \/ r.day # d
    BY <2>1 DEF Unstored
  <2> QED
    BY <1>1, <2>1, <2>3, <2>4, <2>5, <2>6, <2>7 DEF StoredOK
<1>4. ASSUME NEW p \in Portfolios, DeletesPortfolio(p) PROVE StoredOK'
  <2>1. stored' = {row \in stored : row.portfolio # p} /\ existing' = existing \ {p}
    BY <1>4 DEF DeletesPortfolio, DeletePortfolio, DeleteMember
  <2>2. IsFiniteSet(stored')
    BY <1>1, <2>1, FS_Subset DEF StoredOK
  <2> QED
    BY <1>1, <2>1, <2>2 DEF StoredOK
<1> QED
  BY <1>2, <1>3, <1>4, NavSteps
  DEF groupVars, navVars, SeriesNext, ReadSnapshots, BeginSeries, FinishSeries

\* The first events of an account are days, and so are the ones it enters a series on.
LEMMA EnteredIs ==
  ASSUME NavInv, NEW found, \A row \in found : row.day \in Nat, NEW p, Entered(found, p) # {}
  PROVE  /\ Entered(found, p) \in SUBSET Nat
         /\ Min(Entered(found, p)) \in Entered(found, p)
         /\ \A day \in Entered(found, p) : Min(Entered(found, p)) <= day
<1>1. \A e \in entries : DayOf(e.at) \in Nat
  BY DaysAre DEF NavInv, JournalOK
<1>2. p \in existing => DayOf(created_at[p]) \in Nat
  BY GroupsAssumption, DaysAre DEF NavInv, GroupsInv, TablesOK
<1>3. FirstEvents(p) \in SUBSET Nat
  BY <1>1, <1>2 DEF FirstEvents
<1>4. Entered(found, p) \in SUBSET Nat
  BY <1>3 DEF Entered, FirstSnapshots
<1>5. Entered(found, p) \in SUBSET Int /\ 0 \in Int /\ \A day \in Entered(found, p) : 0 <= day
  BY <1>4
<1> QED
  BY <1>4, <1>5, MinIs

LEMMA SeriesKept ==
  ASSUME NavInv, [NavNext]_<<groupVars, reportVars, navVars>>
  PROVE  SeriesOK'
<1>1. SeriesOK /\ StoredOK
  BY DEF NavInv
<1>2. CASE UNCHANGED series
  BY <1>1, <1>2 DEF SeriesOK
<1>3. CASE BeginSeries
  BY <1>3 DEF BeginSeries, SeriesOK
<1>4. ASSUME NEW rates \in RateTables, ReadSnapshots(rates) PROVE SeriesOK'
  <2> DEFINE found == {row \in stored : row.portfolio \in series.members}
  <2>1. IsFiniteSet(found) /\ \A row \in found : row.day \in Nat
    BY <1>1, FS_Subset DEF StoredOK
  <2> HIDE DEF found
  <2>2. series' = NoSeries \/ series' = [at |-> "snapshots", members |-> series.members, found |-> found, rates |-> rates]
    BY <1>4 DEF ReadSnapshots, found
  <2> QED
    BY <2>1, <2>2 DEF SeriesOK, NoSeries
<1>5. CASE FinishSeries
  <2> DEFINE begun == {p \in series.members : Entered(series.found, p) # {}}
             entered == [p \in begun |-> Min(Entered(series.found, p))]
  <2>1. /\ series.at = "snapshots"
        /\ series' = [at |-> "done", members |-> series.members, found |-> series.found, rates |-> series.rates,
                      entered |-> entered]
    BY <1>5 DEF FinishSeries
  <2>2. \A p \in begun : entered[p] \in Int
    BY <1>1, <2>1, EnteredIs DEF SeriesOK
  <2>3. DOMAIN entered = begun
    OBVIOUS
  <2> HIDE DEF entered, begun
  <2> QED
    BY <1>1, <2>1, <2>2, <2>3 DEF SeriesOK
<1> QED
  BY <1>2, <1>3, <1>4, <1>5, NavSteps DEF SeriesNext, TakeSnapshot, navVars, DeletesPortfolio

LEMMA NavInvNext ==
  ASSUME NavInv, [NavNext]_<<groupVars, reportVars, navVars>>
  PROVE  NavInv'
<1>1. GroupsInv'
  BY NavNextIsGroupsNext, GroupsInvNext DEF NavInv
<1> QED
  BY <1>1, ClockKept, JournalKept, StoredKept, SeriesKept DEF NavInv

\* The tables of groups, memberships and snapshots keep their types and their
\* unique keys, whatever requests overlap and whatever is deleted.
THEOREM TypesCorrect == NavSpec => []TypesOK
<1>1. NavInv => TypesOK
  BY DEF NavInv, GroupsInv, TablesOK, EditorsOK, ClockOK, StoredOK, SeriesOK,
         TypesOK, GroupsTypeOK, NavTypeOK
<1> QED
  BY <1>1, NavInvInit, NavInvNext, PTL DEF NavSpec

\* _account_entries and _point_for: a point that is called complete covers every
\* member that had an event by its day, also one posted while the series was made.
THEOREM CompletePointsCover == NavSpec => CompletePointsCoverTheStarted
<1> DEFINE Step == (series.at = "snapshots" /\ series'.at = "done") =>
             \A d \in Points(series') : Complete(series', d) =>
               \A p \in series'.members :
                 (\E first \in FirstEvents(p) : first <= d) => \E row \in RowsOf(series', d) : row.portfolio = p
<1>1. ASSUME NavInv, [NavNext]_<<groupVars, reportVars, navVars>> PROVE [Step]_navVars
  <2> SUFFICES ASSUME series.at = "snapshots", series'.at = "done",
                      NEW d \in Points(series'), Complete(series', d), NEW p \in series'.members,
                      NEW first \in FirstEvents(p), first <= d
               PROVE  \E row \in RowsOf(series', d) : row.portfolio = p
    OBVIOUS
  <2> DEFINE s == series'
             begun == {q \in series.members : Entered(series.found, q) # {}}
             entered == [q \in begun |-> Min(Entered(series.found, q))]
  <2>1. FinishSeries
    BY <1>1, NavSteps DEF SeriesNext, TakeSnapshot, ReadSnapshots, BeginSeries, NoSeries, DeletesPortfolio, navVars
  <2>2. s.members = series.members /\ s.found = series.found /\ s.entered = entered
    BY <2>1 DEF FinishSeries
  <2>3. Entered(series.found, p) = FirstEvents(p)
    BY DEF Entered
  <2>4. p \in begun
    BY <2>2, <2>3
  <2>5. \A row \in series.found : row.day \in Nat
    BY <1>1 DEF NavInv, SeriesOK
  <2>6. Min(FirstEvents(p)) <= first /\ Min(FirstEvents(p)) \in Nat /\ first \in Nat
    BY <1>1, <2>3, <2>5, EnteredIs
  <2>7. d \in Nat
    BY <2>2, <2>5 DEF Points
  <2>8. entered[p] <= d
    BY <2>3, <2>4, <2>6, <2>7
  <2> HIDE DEF s
  <2>9. p \in Started(s, d)
    BY <2>2, <2>4, <2>8 DEF Started
  <2>10. Missing(s, d) = {}
    BY DEF Complete, s
  <2>11. p \in {row.portfolio : row \in RowsOf(s, d)}
    BY <2>9, <2>10 DEF Missing
  <2> QED
    BY <2>11 DEF s
<1> QED
  BY <1>1, NavInvInit, NavInvNext, PTL DEF NavSpec, CompletePointsCoverTheStarted

\* The accounts of a complete point are those that had begun by its day.
LEMMA CompletePointsCoverThose ==
  ASSUME SeriesOK, series.at = "done", NEW d, Complete(series, d), RowsOf(series, d) = Counted(series, d),
         \A row \in RowsOf(series, d) : row.portfolio \in Started(series, d)
  PROVE  Covered(series, d) = Started(series, d) /\ IsFiniteSet(Covered(series, d))
<1>1. Covered(series, d) = {row.portfolio : row \in RowsOf(series, d)}
  BY DEF Covered
<1>2. Started(series, d) \subseteq {row.portfolio : row \in RowsOf(series, d)}
  BY DEF Complete, Missing
<1>3. IsFiniteSet(RowsOf(series, d))
  BY FS_Subset DEF RowsOf, SeriesOK
<1> DEFINE portfolios == [row \in RowsOf(series, d) |-> row.portfolio]
<1>4. IsFiniteSet({portfolios[row] : row \in RowsOf(series, d)})
  BY <1>3, ImageIsFinite
<1>5. {portfolios[row] : row \in RowsOf(series, d)} = {row.portfolio : row \in RowsOf(series, d)}
  OBVIOUS
<1> QED
  BY <1>1, <1>2, <1>4, <1>5

\* SeriesPoint: two complete points that cover as many accounts cover the same.
THEOREM EqualCountsAreAlike == NavSpec => []LikeWithLike
<1>1. ASSUME NavInv PROVE LikeWithLike
  <2> DEFINE Like == {d \in Points(series) :
                        Complete(series, d) /\ RowsOf(series, d) = Counted(series, d)
                        /\ \A row \in RowsOf(series, d) : row.portfolio \in Started(series, d)}
  <2> SUFFICES ASSUME series.at = "done", NEW c \in Like, NEW d \in Like, c < d,
                      Cardinality(Covered(series, c)) = Cardinality(Covered(series, d))
               PROVE  Covered(series, c) = Covered(series, d)
    BY DEF LikeWithLike
  <2>1. SeriesOK
    BY <1>1 DEF NavInv
  <2>2. /\ Covered(series, c) = Started(series, c)
        /\ Covered(series, d) = Started(series, d) /\ IsFiniteSet(Covered(series, d))
    BY <2>1, CompletePointsCoverThose
  <2>3. c \in Nat /\ d \in Nat
    BY <2>1 DEF SeriesOK, Points
  <2>4. Started(series, c) \subseteq Started(series, d)
    BY <2>1, <2>3 DEF SeriesOK, Started
  <2> QED
    BY <2>2, <2>4, FS_Subset
<1> QED
  BY <1>1, NavInvInit, NavInvNext, PTL DEF NavSpec

-----------------------------------------------------------------------------
(* A summary adds up *)

\* The parts of a summary: totals by currency, and positions whose value is left
\* out of the total exactly if it has no price or no rate.
SummaryShape(s) ==
  /\ DOMAIN s = {"at", "cutoff", "rates", "unpriced", "ids", "left", "read", "cash", "debt", "positions", "disturbed"}
  /\ s.cutoff \in Int /\ s.rates \in [Currencies -> Nat]
  /\ s.left \subseteq Portfolios /\ s.read \subseteq Portfolios /\ s.left \cap s.read = {}
  /\ s.cash \in [Currencies -> Int] /\ s.debt \in [Currencies -> Int]
  /\ IsFiniteSet(s.positions)
  /\ \A row \in s.positions :
       /\ row.currency \in Currencies /\ row.value \in Nat /\ row.portfolio \in s.read
       /\ row.priced \in BOOLEAN /\ row.converted \in BOOLEAN
       /\ row.converted <=> (row.priced /\ Converts(s, row.currency))
       /\ ~row.priced => row.value = 0

\* What is added up in a summary, as functions.
RowValues(s) == [row \in s.positions |-> row.value]
RowAmounts(s) == [row \in s.positions |-> s.rates[row.currency] * row.value]
Amounts(rates, cash) == [c \in Currencies |-> rates[c] * cash[c]]
Converting(s) == {c \in Currencies : Converts(s, c)}
RowsIn(s, c) == {row \in s.positions : row.currency = c}

LEMMA ProductIs == \A a, b \in Int : a * b \in Int
OBVIOUS

LEMMA ProductDistributes == \A a, b, c \in Int : a * (b + c) = a * b + a * c
OBVIOUS

LEMMA SummaryNumbers ==
  ASSUME NEW s, SummaryShape(s)
  PROVE  /\ \A c \in Currencies : s.rates[c] \in Nat /\ s.cash[c] \in Int /\ s.debt[c] \in Int
         /\ \A c \in Currencies : Amounts(s.rates, s.cash)[c] \in Int /\ Amounts(s.rates, s.debt)[c] \in Int
         /\ \A row \in s.positions : RowValues(s)[row] \in Nat /\ RowAmounts(s)[row] \in Int
<1>1. \A c \in Currencies : s.rates[c] \in Nat /\ s.cash[c] \in Int /\ s.debt[c] \in Int
  BY DEF SummaryShape
<1>2. ASSUME NEW c \in Currencies
      PROVE  Amounts(s.rates, s.cash)[c] \in Int /\ Amounts(s.rates, s.debt)[c] \in Int
  BY <1>1, ProductIs DEF Amounts
<1>3. ASSUME NEW row \in s.positions
      PROVE  RowValues(s)[row] \in Nat /\ RowAmounts(s)[row] \in Int
  <2>1. row.currency \in Currencies /\ row.value \in Nat
    BY DEF SummaryShape
  <2> QED
    BY <1>1, <2>1, ProductIs DEF RowValues, RowAmounts
<1> QED
  BY <1>1, <1>2, <1>3

\* The sums of Consolidation are sums of these functions.
LEMMA SummarySums ==
  ASSUME NEW s, SummaryShape(s)
  PROVE  /\ Securities(s) = SumOn(RowAmounts(s), {row \in s.positions : row.converted})
         /\ CashValue(s) = SumOn(Amounts(s.rates, s.cash), Converting(s))
         /\ LiabilitiesValue(s) = SumOn(Amounts(s.rates, s.debt), Converting(s))
         /\ \A c \in Currencies : ExposureLocal(s, c) = s.cash[c] + SumOn(RowValues(s), RowsIn(s, c))
         /\ UnconvertedValue(s) =
              SumOn(RowValues(s), {row \in s.positions : row.priced /\ ~row.converted})
              + SumOn(s.cash, Currencies \ Converting(s))
<1>1. Securities(s) = SumOn(RowAmounts(s), {row \in s.positions : row.converted})
  BY ZenonT(40) DEF Securities, RowAmounts, SumOf, SumOn, MapThenSumSet, MapThenFoldSet
<1>2. CashValue(s) = SumOn(Amounts(s.rates, s.cash), Converting(s))
  BY ZenonT(40) DEF CashValue, Amounts, Converting, SumOf, SumOn, MapThenSumSet, MapThenFoldSet
<1>3. LiabilitiesValue(s) = SumOn(Amounts(s.rates, s.debt), Converting(s))
  BY ZenonT(40) DEF LiabilitiesValue, Amounts, Converting, SumOf, SumOn, MapThenSumSet, MapThenFoldSet
<1>4. ASSUME NEW c \in Currencies
      PROVE  ExposureLocal(s, c) = s.cash[c] + SumOn(RowValues(s), RowsIn(s, c))
  BY ZenonT(40) DEF ExposureLocal, RowValues, RowsIn, SumOf, SumOn, MapThenSumSet, MapThenFoldSet
<1>5. SumOf(LAMBDA row : row.value, {row \in s.positions : row.priced /\ ~row.converted})
        = SumOn(RowValues(s), {row \in s.positions : row.priced /\ ~row.converted})
  BY ZenonT(40) DEF RowValues, SumOf, SumOn, MapThenSumSet, MapThenFoldSet
<1>6. SumOf(LAMBDA c : s.cash[c], {c \in Currencies : ~Converts(s, c)}) = SumOn(s.cash, Currencies \ Converting(s))
  <2>1. {c \in Currencies : ~Converts(s, c)} = Currencies \ Converting(s)
    BY DEF Converting
  <2> QED
    BY <2>1 DEF SumOf, SumOn
<1> QED
  BY <1>1, <1>2, <1>3, <1>4, <1>5, <1>6 DEF UnconvertedValue

\* Where there is no rate nothing is added: a sum over what converts is one over all.
LEMMA ConvertingSums ==
  ASSUME NEW s, SummaryShape(s)
  PROVE  /\ SumOn(Amounts(s.rates, s.cash), Converting(s)) = SumOn(Amounts(s.rates, s.cash), Currencies)
         /\ SumOn(Amounts(s.rates, s.debt), Converting(s)) = SumOn(Amounts(s.rates, s.debt), Currencies)
         /\ SumOn(RowAmounts(s), {row \in s.positions : row.converted}) = SumOn(RowAmounts(s), s.positions)
<1> USE SummaryNumbers
<1>1. IsFiniteSet(Currencies) /\ Converting(s) \in SUBSET Currencies
  BY ConsolidationAssumption DEF Converting
<1>2. \A c \in Currencies \ Converting(s) : Amounts(s.rates, s.cash)[c] = 0 /\ Amounts(s.rates, s.debt)[c] = 0
  BY DEF Converting, Converts, NoRate, Amounts
<1>3. SumOn(Amounts(s.rates, s.cash), Currencies) = SumOn(Amounts(s.rates, s.cash), Converting(s))
  <2> DEFINE g == Amounts(s.rates, s.cash)
  <2>1. (\A c \in Currencies : g[c] \in Int) /\ \A c \in Currencies \ Converting(s) : g[c] = 0
    BY <1>2
  <2> HIDE DEF g
  <2>2. SumOn(g, Currencies) = SumOn(g, Converting(s))
    BY <1>1, <2>1, SumOnNonzero
  <2> QED
    BY <2>2 DEF g
<1>4. SumOn(Amounts(s.rates, s.debt), Currencies) = SumOn(Amounts(s.rates, s.debt), Converting(s))
  <2> DEFINE g == Amounts(s.rates, s.debt)
  <2>1. (\A c \in Currencies : g[c] \in Int) /\ \A c \in Currencies \ Converting(s) : g[c] = 0
    BY <1>2
  <2> HIDE DEF g
  <2>2. SumOn(g, Currencies) = SumOn(g, Converting(s))
    BY <1>1, <2>1, SumOnNonzero
  <2> QED
    BY <2>2 DEF g
<1>5. SumOn(RowAmounts(s), s.positions) = SumOn(RowAmounts(s), {row \in s.positions : row.converted})
  <2> DEFINE T == {row \in s.positions : row.converted}
  <2>1. ASSUME NEW row \in s.positions \ T
        PROVE  RowAmounts(s)[row] = 0
    <3>1. row.currency \in Currencies /\ row.value \in Nat /\ (s.rates[row.currency] = 0 \/ row.value = 0)
      BY DEF SummaryShape, Converts, NoRate
    <3>2. s.rates[row.currency] \in Nat
      BY <3>1
    <3>3. s.rates[row.currency] * row.value = 0
      BY <3>1, <3>2
    <3> QED
      BY <3>3 DEF RowAmounts
  <2>2. T \in SUBSET s.positions /\ IsFiniteSet(s.positions)
    BY DEF SummaryShape
  <2> HIDE DEF T
  <2>3. SumOn(RowAmounts(s), s.positions) = SumOn(RowAmounts(s), T)
    BY <2>1, <2>2, SumOnNonzero
  <2> QED
    BY <2>3 DEF T
<1> QED
  BY <1>3, <1>4, <1>5

\* What rows of one currency amount to.
LEMMA RowsOfCurrency ==
  ASSUME NEW s, SummaryShape(s), NEW c \in Currencies
  PROVE  /\ SumOn(RowValues(s), RowsIn(s, c)) \in Nat
         /\ SumOn(RowAmounts(s), RowsIn(s, c)) = s.rates[c] * SumOn(RowValues(s), RowsIn(s, c))
<1> DEFINE R == RowsIn(s, c)
           g == RowValues(s)
           h == RowAmounts(s)
<1>1. R \subseteq s.positions /\ IsFiniteSet(R) /\ s.rates[c] \in Int
  BY SummaryNumbers, FS_Subset DEF RowsIn, SummaryShape
<1>2. \A row \in R : g[row] \in Nat /\ h[row] = s.rates[c] * g[row]
  BY SummaryNumbers DEF RowsIn, RowValues, RowAmounts
<1> HIDE DEF R, g, h
<1>3. SumOn(g, R) \in Nat
  BY <1>1, <1>2, SumOnNat
<1>4. SumOn(h, R) = s.rates[c] * SumOn(g, R)
  BY <1>1, <1>2, SumOnScaled
<1> QED
  BY <1>3, <1>4 DEF R, g, h

LEMMA ExposureIs ==
  ASSUME NEW s, SummaryShape(s), NEW c \in Currencies
  PROVE  /\ s.cash[c] \in Int /\ SumOn(RowValues(s), RowsIn(s, c)) \in Int
         /\ ExposureLocal(s, c) = s.cash[c] + SumOn(RowValues(s), RowsIn(s, c))
<1>1. s.cash[c] \in Int
  BY SummaryNumbers
<1>2. SumOn(RowValues(s), RowsIn(s, c)) \in Int
  BY RowsOfCurrency
<1>3. ExposureLocal(s, c) = s.cash[c] + SumOn(RowValues(s), RowsIn(s, c))
  BY SummarySums
<1> QED
  BY <1>1, <1>2, <1>3

\* What the exposures are worth, and those to the currencies that do not convert.
ExposuresTotal(s) == SumOf(LAMBDA c : s.rates[c] * ExposureLocal(s, c), Currencies)
ExposuresUnconverted(s) == SumOf(LAMBDA c : ExposureLocal(s, c), {c \in Currencies : ~Converts(s, c)})

\* The total is what the exposures are worth.
LEMMA TotalIsOfExposures ==
  ASSUME NEW s, SummaryShape(s)
  PROVE  TotalValue(s) = ExposuresTotal(s)
<1> DEFINE cash == Amounts(s.rates, s.cash)
           held == [c \in Currencies |-> SumOn(RowAmounts(s), RowsIn(s, c))]
           all == [c \in Currencies |-> s.rates[c] * ExposureLocal(s, c)]
           currency == [row \in s.positions |-> row.currency]
           worth == ExposuresTotal(s)
<1>1. worth = SumOn(all, Currencies)
  BY ZenonT(40) DEF ExposuresTotal, SumOf, SumOn, MapThenSumSet, MapThenFoldSet
<1>2. ASSUME NEW c \in Currencies
      PROVE  cash[c] \in Int /\ held[c] \in Int /\ all[c] = cash[c] + held[c]
  <2>1. s.rates[c] \in Int /\ s.cash[c] \in Int /\ Amounts(s.rates, s.cash)[c] \in Int
    BY SummaryNumbers
  <2>2. SumOn(RowValues(s), RowsIn(s, c)) \in Int
        /\ SumOn(RowAmounts(s), RowsIn(s, c)) = s.rates[c] * SumOn(RowValues(s), RowsIn(s, c))
    BY RowsOfCurrency
  <2>3. ExposureLocal(s, c) = s.cash[c] + SumOn(RowValues(s), RowsIn(s, c))
    BY SummarySums
  <2>4. s.rates[c] * (s.cash[c] + SumOn(RowValues(s), RowsIn(s, c)))
          = s.rates[c] * s.cash[c] + s.rates[c] * SumOn(RowValues(s), RowsIn(s, c))
    BY <2>1, <2>2, ProductDistributes
  <2>5. s.rates[c] * SumOn(RowValues(s), RowsIn(s, c)) \in Int
    BY <2>1, <2>2, ProductIs
  <2> QED
    BY <2>1, <2>2, <2>3, <2>4, <2>5 DEF Amounts
<1>3. SumOn(RowAmounts(s), s.positions) = SumOn(held, Currencies)
  <2>1. IsFiniteSet(s.positions) /\ \A row \in s.positions : RowAmounts(s)[row] \in Int /\ currency[row] \in Currencies
    BY SummaryNumbers DEF SummaryShape
  <2>2. \A c \in Currencies : held[c] = SumOn(RowAmounts(s), PartOf(s.positions, currency, c))
    <3>1. ASSUME NEW c \in Currencies
          PROVE  RowsIn(s, c) = PartOf(s.positions, currency, c)
      BY DEF RowsIn, PartOf
    <3> QED
      BY <3>1
  <2> DEFINE g == RowAmounts(s)
             S == s.positions
  <2>3. /\ IsFiniteSet(S) /\ \A row \in S : g[row] \in Int /\ currency[row] \in Currencies
        /\ \A c \in Currencies : held[c] = SumOn(g, PartOf(S, currency, c))
    BY <2>1, <2>2
  <2> HIDE DEF held, currency, g, S
  <2>4. SumOn(g, S) = SumOn(held, Currencies)
    BY <2>3, SumOnParts, ConsolidationAssumption
  <2> QED
    BY <2>4 DEF g, S
<1> HIDE DEF cash, held, all, worth
<1>4. SumOn(all, Currencies) = SumOn(cash, Currencies) + SumOn(held, Currencies)
  BY <1>2, SumOnPlus, ConsolidationAssumption
<1>5. SumOn(cash, Currencies) \in Int /\ SumOn(held, Currencies) \in Int
  BY <1>2, SumOnInt, ConsolidationAssumption
<1>6. Securities(s) = SumOn(held, Currencies) /\ CashValue(s) = SumOn(cash, Currencies)
  BY <1>3, SummarySums, ConvertingSums DEF cash
<1>7. TotalValue(s) = worth
  BY <1>1, <1>4, <1>5, <1>6 DEF TotalValue
<1> QED
  BY <1>7 DEF worth

\* What is listed as unconverted is the exposure to the currencies that do not convert.
LEMMA UnconvertedIsOfExposures ==
  ASSUME NEW s, SummaryShape(s)
  PROVE  UnconvertedValue(s) = ExposuresUnconverted(s)
<1> DEFINE C == Currencies \ Converting(s)
           held == [c \in C |-> SumOn(RowValues(s), RowsIn(s, c))]
           all == [c \in C |-> ExposureLocal(s, c)]
           listed == {row \in s.positions : row.priced /\ ~row.converted}
           foreign == {row \in s.positions : row.currency \in C}
           currency == [row \in s.positions |-> row.currency]
           exposed == ExposuresUnconverted(s)
<1>1. exposed = SumOn(all, C)
  <2>1. {c \in Currencies : ~Converts(s, c)} = C
    BY DEF Converting
  <2> QED
    BY <2>1, ZenonT(40) DEF ExposuresUnconverted, SumOf, SumOn, MapThenSumSet, MapThenFoldSet
<1>2. IsFiniteSet(C) /\ C \subseteq Currencies
  BY ConsolidationAssumption, FS_Subset
<1>3. ASSUME NEW c \in C
      PROVE  s.cash[c] \in Int /\ held[c] \in Int /\ all[c] = s.cash[c] + held[c]
  <2>1. c \in Currencies
    BY <1>2
  <2>2. /\ s.cash[c] \in Int /\ SumOn(RowValues(s), RowsIn(s, c)) \in Int
        /\ ExposureLocal(s, c) = s.cash[c] + SumOn(RowValues(s), RowsIn(s, c))
    BY <2>1, ExposureIs
  <2> QED
    BY <2>2
<1>4. IsFiniteSet(foreign) /\ listed \in SUBSET foreign
  BY FS_Subset DEF SummaryShape, Converting
<1>5. SumOn(RowValues(s), foreign) = SumOn(RowValues(s), listed)
  <2>1. ASSUME NEW row \in foreign \ listed PROVE RowValues(s)[row] = 0
    BY DEF SummaryShape, Converting, RowValues
  <2>2. \A row \in foreign : RowValues(s)[row] \in Int
    BY SummaryNumbers
  <2> HIDE DEF foreign, listed
  <2> QED
    BY <1>4, <2>1, <2>2, SumOnNonzero
<1>6. SumOn(RowValues(s), foreign) = SumOn(held, C)
  <2>1. \A row \in foreign : RowValues(s)[row] \in Int /\ currency[row] \in C
    BY SummaryNumbers
  <2>2. \A c \in C : held[c] = SumOn(RowValues(s), PartOf(foreign, currency, c))
    <3>1. ASSUME NEW c \in C
          PROVE  RowsIn(s, c) = PartOf(foreign, currency, c)
      BY DEF RowsIn, PartOf
    <3> QED
      BY <3>1
  <2> DEFINE g == RowValues(s)
  <2> HIDE DEF held, currency, foreign, C, g
  <2>3. /\ IsFiniteSet(foreign) /\ \A row \in foreign : g[row] \in Int /\ currency[row] \in C
        /\ \A c \in C : held[c] = SumOn(g, PartOf(foreign, currency, c))
    BY <1>4, <2>1, <2>2 DEF g
  <2>4. SumOn(g, foreign) = SumOn(held, C)
    BY <1>2, <2>3, SumOnParts
  <2> QED
    BY <2>4 DEF g
<1> HIDE DEF held, all, C, exposed, listed, foreign
<1>7. SumOn(all, C) = SumOn(s.cash, C) + SumOn(held, C) /\ SumOn(s.cash, C) \in Int /\ SumOn(held, C) \in Int
  BY <1>2, <1>3, SumOnPlus, SumOnInt
<1>8. UnconvertedValue(s) = SumOn(RowValues(s), listed) + SumOn(s.cash, C)
  BY SummarySums DEF C, listed
<1>9. UnconvertedValue(s) = exposed
  <2>1. SumOn(RowValues(s), listed) = SumOn(held, C)
    BY <1>5, <1>6
  <2> QED
    BY <1>1, <1>7, <1>8, <2>1
<1> QED
  BY <1>9 DEF exposed

\* Coverage is a share, and whole if nothing is left out.
LEMMA CoverageIs ==
  ASSUME NEW s, SummaryShape(s), TotalValue(s) >= 0,
         \A c \in Currencies : Converts(s, c) \/ ExposureLocal(s, c) >= 0
  PROVE  /\ 0 <= Coverage(s).part /\ Coverage(s).part <= Coverage(s).whole
         /\ (Coverage(s).part = Coverage(s).whole) <=>
              (\A c \in Currencies : Converts(s, c) \/ ExposureLocal(s, c) = 0)
<1> DEFINE C == {c \in Currencies : ~Converts(s, c)}
           all == [c \in C |-> ExposureLocal(s, c)]
           rest == UnconvertedValue(s)
           total == TotalValue(s)
<1>1. rest = SumOn(all, C)
  <2>1. ExposuresUnconverted(s) = SumOn(all, C)
    BY ZenonT(40) DEF ExposuresUnconverted, SumOf, SumOn, MapThenSumSet, MapThenFoldSet
  <2> QED
    BY <2>1, UnconvertedIsOfExposures
<1>2. IsFiniteSet(C) /\ \A c \in C : all[c] \in Nat
  <2>1. ASSUME NEW c \in C PROVE ExposureLocal(s, c) \in Int
    <3>1. /\ s.cash[c] \in Int /\ SumOn(RowValues(s), RowsIn(s, c)) \in Int
          /\ ExposureLocal(s, c) = s.cash[c] + SumOn(RowValues(s), RowsIn(s, c))
      BY ExposureIs
    <3> QED
      BY <3>1
  <2> QED
    BY <2>1, ConsolidationAssumption, FS_Subset
<1>3. total \in Nat
  <2>1. IsFiniteSet(s.positions) /\ IsFiniteSet(Currencies)
    BY ConsolidationAssumption DEF SummaryShape
  <2> DEFINE g == RowAmounts(s)
             h == Amounts(s.rates, s.cash)
  <2>2. (\A row \in s.positions : g[row] \in Int) /\ \A c \in Currencies : h[c] \in Int
    BY SummaryNumbers
  <2>3. Securities(s) = SumOn(g, s.positions) /\ CashValue(s) = SumOn(h, Currencies)
    BY SummarySums, ConvertingSums
  <2> HIDE DEF g, h
  <2>4. SumOn(g, s.positions) \in Int /\ SumOn(h, Currencies) \in Int
    BY <2>1, <2>2, SumOnInt
  <2> QED
    BY <2>3, <2>4 DEF TotalValue
<1>4. (\A c \in Currencies : Converts(s, c) \/ ExposureLocal(s, c) = 0) <=> (\A c \in C : all[c] = 0)
  OBVIOUS
<1> HIDE DEF C, all, total, rest
<1>5. rest \in Nat /\ (rest = 0 <=> \A c \in C : all[c] = 0)
  <2>1. rest \in Nat
    BY <1>1, <1>2, SumOnNat
  <2>2. ASSUME rest = 0, NEW c \in C PROVE all[c] = 0
    <3>1. all[c] <= SumOn(all, C)
      BY <1>2, SumOnBounds
    <3> QED
      BY <1>1, <1>2, <2>2, <3>1
  <2>3. ASSUME \A c \in C : all[c] = 0 PROVE rest = 0
    <3>1. {} \in SUBSET C /\ \A c \in C \ {} : all[c] = 0
      BY <2>3
    <3>2. \A c \in C : all[c] \in Int
      BY <1>2
    <3>3. SumOn(all, C) = SumOn(all, {})
      BY <1>2, <3>1, <3>2, SumOnNonzero
    <3> QED
      BY <1>1, <3>3, SumOnNothing
  <2> QED
    BY <2>1, <2>2, <2>3
<1>6. Coverage(s) = IF total + rest = 0 THEN [part |-> 1, whole |-> 1] ELSE [part |-> total, whole |-> total + rest]
  BY DEF Coverage, CoverageOf, total, rest
<1>7. CASE total + rest = 0
  <2>1. Coverage(s).part = 1 /\ Coverage(s).whole = 1 /\ rest = 0
    BY <1>3, <1>5, <1>6, <1>7
  <2> QED
    BY <1>4, <1>5, <2>1
<1>8. CASE total + rest # 0
  <2>1. Coverage(s).part = total /\ Coverage(s).whole = total + rest
    BY <1>6, <1>8
  <2> QED
    BY <1>3, <1>4, <1>5, <2>1
<1> QED
  BY <1>7, <1>8

\* The rows of one portfolio are those of its holdings, priced at its turn.
RowsOfPortfolio(s, p) == {row \in s.positions : row.portfolio = p}
RowsAreHoldings(s) ==
  \A p \in s.read : \E gone \in SUBSET s.unpriced :
    RowsOfPortfolio(s, p) = {Position(s, p, h, gone) : h \in HoldingAt(p, s.cutoff)}

LEMMA WithPortfolioFields ==
  ASSUME NEW s, SummaryShape(s), NEW p, NEW gaps, NEW n, n = WithPortfolio(s, p, gaps)
  PROVE  /\ n.at = s.at /\ n.cutoff = s.cutoff /\ n.rates = s.rates /\ n.disturbed = s.disturbed
         /\ n.left = s.left \ {p} /\ n.read = s.read \cup {p}
         /\ s.unpriced \subseteq n.unpriced /\ gaps = {} => n.unpriced = s.unpriced
BY DEF WithPortfolio, SummaryShape

LEMMA WithPortfolioIs ==
  ASSUME NEW s, SummaryShape(s), NEW p \in Portfolios, NEW gaps, NEW n, n = WithPortfolio(s, p, gaps)
  PROVE  LET b == BaseCurrency[p]
         IN  /\ DOMAIN n = DOMAIN s
             /\ n.at = s.at /\ n.cutoff = s.cutoff /\ n.rates = s.rates /\ n.disturbed = s.disturbed
             /\ n.left = s.left \ {p} /\ n.read = s.read \cup {p}
             /\ s.unpriced \subseteq n.unpriced
             /\ n.positions = s.positions \cup {Position(s, p, h, n.unpriced) : h \in HoldingAt(p, s.cutoff)}
             /\ n.cash = [s.cash EXCEPT ![b] = s.cash[b] + CashAt(p, s.cutoff)]
             /\ n.debt = IF p \in Liabilities THEN [s.debt EXCEPT ![b] = s.debt[b] + CashAt(p, s.cutoff)] ELSE s.debt
BY DEF WithPortfolio, SummaryShape

LEMMA HoldingsAre ==
  ASSUME NEW p \in Portfolios, NEW cutoff
  PROVE  /\ IsFiniteSet(HoldingAt(p, cutoff))
         /\ \A h \in HoldingAt(p, cutoff) : h.currency = BaseCurrency[p] /\ h.value \in Nat
         /\ \A g, h \in HoldingAt(p, cutoff) : g.ticker = h.ticker => g = h
BY ConsolidationAssumption, FS_EmptySet DEF HoldingAt

LEMMA PositionIs ==
  ASSUME NEW s, NEW p \in Portfolios, NEW h \in HoldingAt(p, s.cutoff), NEW gone
  PROVE  LET row == Position(s, p, h, gone)
         IN  /\ row.portfolio = p /\ row.ticker = h.ticker /\ row.currency = BaseCurrency[p]
             /\ row.currency \in Currencies
             /\ row.priced = (h.ticker \notin gone) /\ row.value = (IF row.priced THEN h.value ELSE 0)
             /\ row.converted = (row.priced /\ Converts(s, row.currency))
<1>1. h.currency = BaseCurrency[p] /\ BaseCurrency[p] \in Currencies
  BY HoldingsAre, ConsolidationAssumption
<1> QED
  BY <1>1 DEF Position

\* One portfolio after another keeps the parts in shape.
LEMMA WithPortfolioKeepsShape ==
  ASSUME NEW s, SummaryShape(s), RowsAreHoldings(s), NEW p \in Portfolios, p \in s.left, NEW gaps, JournalOK
  PROVE  SummaryShape(WithPortfolio(s, p, gaps)) /\ RowsAreHoldings(WithPortfolio(s, p, gaps))
<1> DEFINE n == WithPortfolio(s, p, gaps)
           b == BaseCurrency[p]
           new == {Position(s, p, h, n.unpriced) : h \in HoldingAt(p, s.cutoff)}
<1>1. /\ DOMAIN n = DOMAIN s
      /\ n.cutoff = s.cutoff /\ n.rates = s.rates
      /\ n.left = s.left \ {p} /\ n.read = s.read \cup {p}
      /\ n.positions = s.positions \cup new
      /\ n.cash = [s.cash EXCEPT ![b] = s.cash[b] + CashAt(p, s.cutoff)]
      /\ n.debt = IF p \in Liabilities THEN [s.debt EXCEPT ![b] = s.debt[b] + CashAt(p, s.cutoff)] ELSE s.debt
  BY WithPortfolioIs
<1>2. s.unpriced \subseteq n.unpriced
  BY WithPortfolioIs
<1> HIDE DEF n
<1>3. b \in Currencies /\ CashAt(p, s.cutoff) \in Int
  BY CashAtIs, ConsolidationAssumption
<1>4. IsFiniteSet(new)
  <2> DEFINE f == [h \in HoldingAt(p, s.cutoff) |-> Position(s, p, h, n.unpriced)]
             H == HoldingAt(p, s.cutoff)
  <2>1. new = {f[h] : h \in H} /\ IsFiniteSet(H)
    BY HoldingsAre
  <2> HIDE DEF f, H, new
  <2> QED
    BY <2>1, ImageIsFinite
<1>5. \A row \in new : /\ row.portfolio = p /\ row.currency \in Currencies /\ row.value \in Nat
                       /\ row.priced \in BOOLEAN /\ row.converted \in BOOLEAN
                       /\ row.converted <=> (row.priced /\ Converts(s, row.currency))
                       /\ ~row.priced => row.value = 0
  <2> SUFFICES ASSUME NEW h \in HoldingAt(p, s.cutoff), NEW row, row = Position(s, p, h, n.unpriced)
               PROVE  /\ row.portfolio = p /\ row.currency \in Currencies /\ row.value \in Nat
                      /\ row.priced \in BOOLEAN /\ row.converted \in BOOLEAN
                      /\ row.converted <=> (row.priced /\ Converts(s, row.currency))
                      /\ ~row.priced => row.value = 0
    OBVIOUS
  <2>1. h.value \in Nat
    BY HoldingsAre
  <2>2. /\ row.portfolio = p /\ row.currency \in Currencies
        /\ row.priced = (h.ticker \notin n.unpriced) /\ row.value = (IF row.priced THEN h.value ELSE 0)
        /\ row.converted = (row.priced /\ Converts(s, row.currency))
    BY PositionIs
  <2>3. (h.ticker \notin n.unpriced) \in BOOLEAN /\ Converts(s, row.currency) \in BOOLEAN
    BY DEF Converts
  <2> QED
    BY <2>1, <2>2, <2>3
<1> HIDE DEF new, b
<1>6. n.cash \in [Currencies -> Int] /\ n.debt \in [Currencies -> Int]
  BY <1>1, <1>3 DEF SummaryShape
<1>7. IsFiniteSet(n.positions)
  <2> DEFINE old == s.positions
  <2>1. IsFiniteSet(old) /\ n.positions = old \cup new
    BY <1>1 DEF SummaryShape
  <2> HIDE DEF old
  <2>2. IsFiniteSet(old \cup new)
    BY <1>4, <2>1, FS_Union
  <2> QED
    BY <2>1, <2>2
<1>8. SummaryShape(n)
  <2>1. ASSUME NEW row \in n.positions
        PROVE  /\ row.currency \in Currencies /\ row.value \in Nat /\ row.portfolio \in n.read
               /\ row.priced \in BOOLEAN /\ row.converted \in BOOLEAN
               /\ row.converted <=> (row.priced /\ Converts(n, row.currency))
               /\ ~row.priced => row.value = 0
    BY <1>1, <1>5 DEF SummaryShape, Converts
  <2>2. n.left \subseteq Portfolios /\ n.read \subseteq Portfolios /\ n.left \cap n.read = {}
    BY <1>1 DEF SummaryShape
  <2> QED
    BY <1>1, <1>6, <1>7, <2>1, <2>2 DEF SummaryShape
<1>9. \A q, h, gone : Position(n, q, h, gone) = Position(s, q, h, gone)
  BY <1>1 DEF Position, Converts
<1>10. RowsOfPortfolio(n, p) = {Position(n, p, h, n.unpriced) : h \in HoldingAt(p, n.cutoff)}
  <2>1. RowsOfPortfolio(n, p) = new
    BY <1>1, <1>5 DEF RowsOfPortfolio, SummaryShape
  <2> QED
    BY <1>1, <1>9, <2>1 DEF new
<1>11. ASSUME NEW q \in s.read
       PROVE  \E gone \in SUBSET n.unpriced :
                RowsOfPortfolio(n, q) = {Position(n, q, h, gone) : h \in HoldingAt(q, n.cutoff)}
  <2>1. RowsOfPortfolio(n, q) = RowsOfPortfolio(s, q)
    BY <1>1, <1>5 DEF RowsOfPortfolio, SummaryShape
  <2>2. PICK gone \in SUBSET s.unpriced :
          RowsOfPortfolio(s, q) = {Position(s, q, h, gone) : h \in HoldingAt(q, s.cutoff)}
    BY DEF RowsAreHoldings
  <2> QED
    BY <1>1, <1>2, <1>9, <2>1, <2>2
<1>12. RowsAreHoldings(n)
  BY <1>1, <1>10, <1>11 DEF RowsAreHoldings
<1> QED
  BY <1>8, <1>12 DEF n

\* The totals by currency are those of the portfolios that were read.
CashBy(cutoff) == [p \in Portfolios |-> CashAt(p, cutoff)]
CashAddsUp(s) ==
  \A c \in Currencies :
    /\ s.cash[c] = SumOn(CashBy(s.cutoff), PartOf(s.read, BaseCurrency, c))
    /\ s.debt[c] = SumOn(CashBy(s.cutoff), PartOf(s.read \cap Liabilities, BaseCurrency, c))

LEMMA CashByIs ==
  ASSUME NEW cutoff, JournalOK
  PROVE  IsFiniteSet(Portfolios) /\ \A p \in Portfolios : CashBy(cutoff)[p] \in Int
BY CashAtIs, ConsolidationAssumption DEF CashBy

LEMMA BegunFields ==
  ASSUME NEW ids, NEW cutoff, NEW rates, NEW s, s = Begun(ids, cutoff, rates)
  PROVE  /\ s.at = "reading" /\ s.left = ids /\ s.read = {} /\ s.unpriced = {} /\ s.rates = rates
         /\ s.cutoff = cutoff /\ s.positions = {}
BY DEF Begun

LEMMA BegunIs ==
  ASSUME NEW ids \in SUBSET Portfolios, NEW cutoff \in Int, NEW rates \in RateTables,
         NEW s, s = Begun(ids, cutoff, rates)
  PROVE  SummaryShape(s) /\ RowsAreHoldings(s) /\ CashAddsUp(s)
<1>1. /\ DOMAIN s = {"at", "cutoff", "rates", "unpriced", "ids", "left", "read", "cash", "debt", "positions", "disturbed"}
      /\ s.at = "reading" /\ s.cutoff = cutoff /\ s.rates = rates /\ s.left = ids /\ s.read = {}
      /\ s.cash = Nothing /\ s.debt = Nothing /\ s.positions = {} /\ s.unpriced = {}
  BY DEF Begun
<1>2. rates \in [Currencies -> Nat]
  BY ConsolidationAssumption
<1>3. SummaryShape(s)
  BY <1>1, <1>2, FS_EmptySet DEF SummaryShape, Nothing
<1>4. RowsAreHoldings(s)
  BY <1>1 DEF RowsAreHoldings
<1>5. CashAddsUp(s)
  <2> SUFFICES ASSUME NEW c \in Currencies
               PROVE  /\ s.cash[c] = SumOn(CashBy(s.cutoff), PartOf(s.read, BaseCurrency, c))
                      /\ s.debt[c] = SumOn(CashBy(s.cutoff), PartOf(s.read \cap Liabilities, BaseCurrency, c))
    BY DEF CashAddsUp
  <2>1. PartOf(s.read, BaseCurrency, c) = {} /\ PartOf(s.read \cap Liabilities, BaseCurrency, c) = {}
    BY <1>1 DEF PartOf
  <2> DEFINE g == CashBy(s.cutoff)
  <2>2. SumOn(g, {}) = 0
    <3> HIDE DEF g
    <3> QED
      BY SumOnNothing
  <2>3. s.cash[c] = 0 /\ s.debt[c] = 0
    BY <1>1 DEF Nothing
  <2> QED
    BY <2>1, <2>2, <2>3
<1> QED
  BY <1>3, <1>4, <1>5

\* Another portfolio adds its cash to the sum of its currency.
LEMMA PartGrows ==
  ASSUME NEW g, NEW S, IsFiniteSet(S), NEW p, p \notin S, \A q \in S \cup {p} : g[q] \in Int,
         NEW part, NEW c
  PROVE  SumOn(g, PartOf(S \cup {p}, part, c))
           = SumOn(g, PartOf(S, part, c)) + (IF part[p] = c THEN g[p] ELSE 0)
<1> DEFINE T == PartOf(S, part, c)
<1>1. IsFiniteSet(T) /\ T \subseteq S
  BY FS_Subset DEF PartOf
<1>2. SumOn(g, T) \in Int
  <2> HIDE DEF T
  <2> QED
    BY <1>1, SumOnInt
<1>3. CASE part[p] = c
  <2>1. PartOf(S \cup {p}, part, c) = T \cup {p}
    BY <1>3 DEF PartOf
  <2> HIDE DEF T
  <2>2. SumOn(g, T \cup {p}) = SumOn(g, T) + g[p]
    BY <1>1, SumOnAdded
  <2> QED
    BY <1>3, <2>1, <2>2 DEF T
<1>4. CASE part[p] # c
  <2>1. PartOf(S \cup {p}, part, c) = T
    BY <1>4 DEF PartOf
  <2> HIDE DEF T
  <2>2. SumOn(g, T) + 0 = SumOn(g, T)
    BY <1>2
  <2> QED
    BY <1>4, <2>1, <2>2 DEF T
<1> QED
  BY <1>3, <1>4

LEMMA WithPortfolioAddsUp ==
  ASSUME NEW s, SummaryShape(s), CashAddsUp(s), NEW p \in Portfolios, p \in s.left, NEW gaps, JournalOK
  PROVE  CashAddsUp(WithPortfolio(s, p, gaps))
<1> DEFINE n == WithPortfolio(s, p, gaps)
           b == BaseCurrency[p]
           g == CashBy(s.cutoff)
           R == s.read
           L == s.read \cap Liabilities
<1>1. /\ n.cutoff = s.cutoff /\ n.read = R \cup {p}
      /\ n.cash = [s.cash EXCEPT ![b] = s.cash[b] + CashAt(p, s.cutoff)]
      /\ n.debt = IF p \in Liabilities THEN [s.debt EXCEPT ![b] = s.debt[b] + CashAt(p, s.cutoff)] ELSE s.debt
  BY WithPortfolioIs
<1> HIDE DEF n
<1>2. /\ g[p] = CashAt(p, s.cutoff) /\ b \in Currencies /\ p \notin R /\ p \notin L
      /\ IsFiniteSet(R) /\ IsFiniteSet(L) /\ R \subseteq Portfolios /\ L \subseteq Portfolios
  BY CashByIs, ConsolidationAssumption, FS_Subset DEF CashBy, SummaryShape
<1>3. \A q \in Portfolios : g[q] \in Int
  BY CashByIs
<1>4. DOMAIN s.cash = Currencies /\ DOMAIN s.debt = Currencies /\ \A c \in Currencies : s.cash[c] \in Int /\ s.debt[c] \in Int
  BY DEF SummaryShape
<1>5. ASSUME NEW c \in Currencies
      PROVE  s.cash[c] = SumOn(g, PartOf(R, BaseCurrency, c)) /\ s.debt[c] = SumOn(g, PartOf(L, BaseCurrency, c))
  BY DEF CashAddsUp
<1>6. n.read \cap Liabilities = IF p \in Liabilities THEN L \cup {p} ELSE L
  BY <1>1
<1> HIDE DEF g, R, L
<1>7. ASSUME NEW c \in Currencies
      PROVE  n.cash[c] = SumOn(g, PartOf(n.read, BaseCurrency, c))
  <2>0. IsFiniteSet(R) /\ p \notin R /\ \A q \in R \cup {p} : g[q] \in Int
    BY <1>2, <1>3
  <2>1. SumOn(g, PartOf(R \cup {p}, BaseCurrency, c))
          = SumOn(g, PartOf(R, BaseCurrency, c)) + (IF BaseCurrency[p] = c THEN g[p] ELSE 0)
    BY <2>0, PartGrows
  <2>2. n.cash[c] = s.cash[c] + (IF b = c THEN g[p] ELSE 0)
    BY <1>1, <1>2, <1>4
  <2> QED
    BY <1>1, <1>5, <2>1, <2>2
<1>8. ASSUME NEW c \in Currencies
      PROVE  n.debt[c] = SumOn(g, PartOf(n.read \cap Liabilities, BaseCurrency, c))
  <2>1. CASE p \in Liabilities
    <3>0. IsFiniteSet(L) /\ p \notin L /\ \A q \in L \cup {p} : g[q] \in Int
      BY <1>2, <1>3
    <3>1. SumOn(g, PartOf(L \cup {p}, BaseCurrency, c))
            = SumOn(g, PartOf(L, BaseCurrency, c)) + (IF BaseCurrency[p] = c THEN g[p] ELSE 0)
      BY <3>0, PartGrows
    <3>2. n.debt[c] = s.debt[c] + (IF b = c THEN g[p] ELSE 0)
      BY <1>1, <1>2, <1>4, <2>1
    <3> QED
      BY <1>5, <1>6, <2>1, <3>1, <3>2
  <2>2. CASE p \notin Liabilities
    BY <1>1, <1>5, <1>6, <2>2
  <2> QED
    BY <2>1, <2>2
<1>9. n.cutoff = s.cutoff
  BY <1>1
<1> QED
  BY <1>7, <1>8, <1>9 DEF CashAddsUp, n, g

\* What the entries E of a portfolio add up to at an instant.
Dated(E, p, cutoff) == {e \in E : e.portfolio = p /\ e.at <= cutoff}
Amount(E) == [e \in E |-> e.amount]
OpeningAt(p, cutoff) == IF created_at[p] <= cutoff THEN Opening[p] ELSE 0

LEMMA TransferredSum ==
  \A p, cutoff : CashAt(p, cutoff) =
     OpeningAt(p, cutoff) + SumOn(Amount(Dated(entries, p, cutoff)), Dated(entries, p, cutoff))
<1> TAKE p, cutoff
<1>1. Transferred(p, cutoff) = SumOn(Amount(Dated(entries, p, cutoff)), Dated(entries, p, cutoff))
  BY ZenonT(40) DEF Transferred, Dated, Amount, SumOf, SumOn, MapThenSumSet, MapThenFoldSet
<1> QED
  BY <1>1 DEF CashAt, OpeningAt

LEMMA TransferredSumNext ==
  (\A p, cutoff : CashAt(p, cutoff) =
     OpeningAt(p, cutoff) + SumOn(Amount(Dated(entries, p, cutoff)), Dated(entries, p, cutoff)))'
BY TransferredSum, PTL

\* A step that leaves the entries of a portfolio up to an instant alone.
LEMMA CashAtSame ==
  ASSUME NEW p, NEW cutoff, Dated(entries', p, cutoff) = Dated(entries, p, cutoff)
  PROVE  CashAt(p, cutoff)' = CashAt(p, cutoff)
<1>1. CashAt(p, cutoff)' =
        OpeningAt(p, cutoff) + SumOn(Amount(Dated(entries', p, cutoff)), Dated(entries', p, cutoff))
  BY TransferredSumNext
<1> QED
  BY <1>1, TransferredSum

\* A summary that was begun has its parts in shape; while it is read, and unless a
\* transfer of before the cutoff or a deletion came in between, its totals are
\* those of the journals.
SummaryOK ==
  /\ summary.at \in {"none", "reading", "done"}
  /\ summary.at # "none" => (SummaryShape(summary) /\ RowsAreHoldings(summary))
  /\ (summary.at = "reading" /\ Settled) => CashAddsUp(summary)

\* The totals stand if the cash of what was read does.
LEMMA TotalsStand ==
  ASSUME NEW s, SummaryShape(s), CashAddsUp(s), JournalOK,
         \A p \in s.read : Dated(entries', p, s.cutoff) = Dated(entries, p, s.cutoff)
  PROVE  CashAddsUp(s)'
<1> DEFINE g == CashBy(s.cutoff)
           h == CashBy(s.cutoff)'
<1>1. \A p \in s.read : h[p] = g[p] /\ g[p] \in Int
  <2> SUFFICES ASSUME NEW p \in s.read PROVE h[p] = g[p] /\ g[p] \in Int
    OBVIOUS
  <2>1. p \in Portfolios
    BY DEF SummaryShape
  <2>2. CashAt(p, s.cutoff)' = CashAt(p, s.cutoff)
    BY CashAtSame
  <2> QED
    BY <2>1, <2>2, CashByIs DEF CashBy
<1>2. ASSUME NEW c, NEW R \in SUBSET s.read
      PROVE  SumOn(h, PartOf(R, BaseCurrency, c)) = SumOn(g, PartOf(R, BaseCurrency, c))
  <2> DEFINE P == PartOf(R, BaseCurrency, c)
  <2>1. IsFiniteSet(P) /\ P \subseteq s.read
    BY CashByIs, FS_Subset DEF SummaryShape, PartOf
  <2>2. \A p \in P : g[p] = h[p] /\ g[p] \in Int
    BY <1>1, <2>1
  <2> HIDE DEF P, g, h
  <2>3. SumOn(g, P) = SumOn(h, P)
    BY <2>1, <2>2, SumOnSame
  <2> QED
    BY <2>3 DEF P
<1> HIDE DEF g, h
<1>3. ASSUME NEW c \in Currencies
      PROVE  /\ s.cash[c] = SumOn(h, PartOf(s.read, BaseCurrency, c))
             /\ s.debt[c] = SumOn(h, PartOf(s.read \cap Liabilities, BaseCurrency, c))
  <2>1. /\ s.cash[c] = SumOn(g, PartOf(s.read, BaseCurrency, c))
        /\ s.debt[c] = SumOn(g, PartOf(s.read \cap Liabilities, BaseCurrency, c))
    BY DEF CashAddsUp, g
  <2>2. s.read \in SUBSET s.read /\ s.read \cap Liabilities \in SUBSET s.read
    OBVIOUS
  <2> QED
    BY <1>2, <2>1, <2>2
<1> QED
  BY <1>3 DEF CashAddsUp, h

LEMMA SummaryStands ==
  ASSUME NavInv, SummaryOK, summary' = summary, Settled' => Settled,
         Settled' => \A p \in summary.read :
           Dated(entries', p, summary.cutoff) = Dated(entries, p, summary.cutoff)
  PROVE  SummaryOK'
<1>1. PICK s : s = summary
  OBVIOUS
<1>2. ASSUME s.at = "reading", Settled' PROVE CashAddsUp(s)'
  <2>1. SummaryShape(s) /\ CashAddsUp(s) /\ JournalOK
    BY <1>1, <1>2 DEF SummaryOK, NavInv
  <2> QED
    BY <1>1, <1>2, <2>1, TotalsStand
<1>3. summary' = s
  BY <1>1
<1>4. (summary.at = "reading" /\ Settled)' => CashAddsUp(summary)'
  BY <1>2, <1>3
<1>5. /\ summary'.at \in {"none", "reading", "done"}
      /\ summary'.at # "none" => (SummaryShape(summary') /\ RowsAreHoldings(summary'))
  BY DEF SummaryOK
<1>6. RowsAreHoldings(summary)' <=> RowsAreHoldings(summary')
  BY DEF RowsAreHoldings, RowsOfPortfolio, Position, HoldingAt, Converts
<1> QED
  BY <1>4, <1>5, <1>6 DEF SummaryOK

LEMMA BeginKeepsSummary ==
  ASSUME NavInv, SummaryOK, NEW cutoff \in 0..moment, NEW rates \in RateTables, BeginSummary(cutoff, rates)
  PROVE  SummaryOK'
<1>1. MembersAt(cutoff) \in SUBSET Portfolios /\ cutoff \in Int
  BY DEF NavInv, GroupsInv, TablesOK, MembersAt, RowsAt, Member
<1>a. PICK ids : ids = MembersAt(cutoff)
  OBVIOUS
<1>2. PICK s : s = Begun(ids, cutoff, rates)
  OBVIOUS
<1>3. summary' = s
  BY <1>a, <1>2 DEF BeginSummary
<1>4. SummaryShape(s) /\ RowsAreHoldings(s) /\ CashAddsUp(s) /\ s.at = "reading" /\ s.read = {}
  <2>1. ids \in SUBSET Portfolios
    BY <1>1, <1>a
  <2>2. SummaryShape(s) /\ RowsAreHoldings(s) /\ CashAddsUp(s)
    BY <1>1, <1>2, <2>1, BegunIs
  <2>3. s.at = "reading" /\ s.read = {}
    BY <1>2, BegunFields
  <2> QED
    BY <2>2, <2>3
<1>5. CashAddsUp(s)'
  BY <1>4, TotalsStand DEF NavInv
<1> QED
  BY <1>3, <1>4, <1>5 DEF SummaryOK

LEMMA ReadKeepsSummary ==
  ASSUME NavInv, SummaryOK, NEW p \in Portfolios, NEW gaps, ReadPortfolio(p, gaps), existing' = existing
  PROVE  SummaryOK'
<1>1. PICK s : s = summary
  OBVIOUS
<1>2. s.at = "reading" /\ p \in s.left /\ SummaryShape(s) /\ RowsAreHoldings(s) /\ JournalOK
  BY <1>1 DEF ReadPortfolio, SummaryOK, NavInv
<1>3. entries' = entries
  BY DEF ReadPortfolio
<1>4. (s.read \subseteq existing /\ ~s.disturbed) => CashAddsUp(s)
  BY <1>1, <1>2 DEF SummaryOK, Settled
<1>5. CASE p \in existing
  <2>1. PICK n : n = WithPortfolio(s, p, gaps)
    OBVIOUS
  <2>2. summary' = n
    BY <1>1, <1>5, <2>1 DEF ReadPortfolio
  <2>3. SummaryShape(n) /\ RowsAreHoldings(n)
    BY <1>2, <2>1, WithPortfolioKeepsShape
  <2>4. n.at = "reading" /\ n.disturbed = s.disturbed /\ s.read \subseteq n.read
    <3>1. n.at = s.at /\ n.disturbed = s.disturbed /\ n.read = s.read \cup {p}
      BY <1>2, <2>1, WithPortfolioFields
    <3> QED
      BY <1>2, <3>1
  <2>5. ASSUME n.read \subseteq existing, ~n.disturbed PROVE CashAddsUp(n)'
    <3>1. CashAddsUp(s)
      BY <1>4, <2>4, <2>5
    <3>2. CashAddsUp(n)
      BY <1>2, <2>1, <3>1, WithPortfolioAddsUp
    <3> QED
      BY <1>2, <1>3, <2>3, <3>2, TotalsStand
  <2> QED
    BY <2>2, <2>3, <2>4, <2>5 DEF SummaryOK, Settled
<1>6. CASE p \notin existing
  <2>1. PICK n : n = [s EXCEPT !.left = s.left \ {p}]
    OBVIOUS
  <2>2. summary' = n
    BY <1>1, <1>6, <2>1 DEF ReadPortfolio
  <2>3. /\ DOMAIN n = DOMAIN s /\ n.at = s.at /\ n.cutoff = s.cutoff /\ n.rates = s.rates /\ n.unpriced = s.unpriced
        /\ n.left = s.left \ {p} /\ n.read = s.read /\ n.cash = s.cash /\ n.debt = s.debt
        /\ n.positions = s.positions /\ n.disturbed = s.disturbed
    BY <1>2, <2>1 DEF SummaryShape
  <2>4. SummaryShape(n)
    BY <1>2, <2>3 DEF SummaryShape, Converts
  <2>5. RowsAreHoldings(n)
    <3>1. \A q, h, gone : Position(n, q, h, gone) = Position(s, q, h, gone)
      BY <2>3 DEF Position, Converts
    <3> QED
      BY <1>2, <2>3, <3>1 DEF RowsAreHoldings, RowsOfPortfolio
  <2>6. ASSUME n.read \subseteq existing, ~n.disturbed PROVE CashAddsUp(n)'
    <3>1. CashAddsUp(n)
      BY <1>4, <2>3, <2>6 DEF CashAddsUp
    <3> QED
      BY <1>2, <1>3, <2>4, <3>1, TotalsStand
  <2> QED
    BY <1>2, <2>2, <2>3, <2>4, <2>5, <2>6 DEF SummaryOK, Settled
<1> QED
  BY <1>5, <1>6

LEMMA FinishKeepsSummary ==
  ASSUME NavInv, SummaryOK, FinishSummary
  PROVE  SummaryOK'
<1>1. PICK s : s = summary
  OBVIOUS
<1>2. s.at = "reading" /\ SummaryShape(s) /\ RowsAreHoldings(s)
  BY <1>1 DEF FinishSummary, SummaryOK
<1>3. PICK n : n = [s EXCEPT !.at = "done"]
  OBVIOUS
<1>4. summary' = n
  BY <1>1, <1>3 DEF FinishSummary
<1>5. /\ DOMAIN n = DOMAIN s /\ n.at = "done" /\ n.cutoff = s.cutoff /\ n.rates = s.rates /\ n.unpriced = s.unpriced
      /\ n.left = s.left /\ n.read = s.read /\ n.cash = s.cash /\ n.debt = s.debt
      /\ n.positions = s.positions /\ n.disturbed = s.disturbed
  BY <1>2, <1>3 DEF SummaryShape
<1>6. SummaryShape(n)
  BY <1>2, <1>5 DEF SummaryShape, Converts
<1>7. RowsAreHoldings(n)
  <2>1. \A q, h, gone : Position(n, q, h, gone) = Position(s, q, h, gone)
    BY <1>5 DEF Position, Converts
  <2> QED
    BY <1>2, <1>5, <2>1 DEF RowsAreHoldings, RowsOfPortfolio
<1> QED
  BY <1>4, <1>5, <1>6, <1>7 DEF SummaryOK

\* A transfer that is dated by the cutoff disturbs the summary, a later one does not
\* touch it.
LEMMA CommitKeepsSummary ==
  ASSUME NavInv, SummaryOK, CommitTransfer, existing' = existing
  PROVE  SummaryOK'
<1> DEFINE s == summary
           t == posting.when
<1>1. \A e \in entries' \ entries : e.at = t
  BY DEF CommitTransfer
<1>2. t \in Nat /\ entries \subseteq entries'
  BY DEF CommitTransfer, NavInv, JournalOK
<1>3. CASE s.at = "reading" /\ t <= s.cutoff
  <2>1. PICK n : n = [summary EXCEPT !.disturbed = TRUE]
    OBVIOUS
  <2>2. summary' = n
    BY <1>3, <2>1 DEF CommitTransfer
  <2>3. SummaryShape(summary) /\ RowsAreHoldings(summary)
    BY <1>3 DEF SummaryOK
  <2>4. /\ DOMAIN n = DOMAIN s /\ n.at = s.at /\ n.cutoff = s.cutoff /\ n.rates = s.rates /\ n.unpriced = s.unpriced
        /\ n.left = s.left /\ n.read = s.read /\ n.cash = s.cash /\ n.debt = s.debt
        /\ n.positions = s.positions /\ n.disturbed = TRUE
    BY <2>1, <2>3 DEF SummaryShape
  <2>5. SummaryShape(n)
    BY <2>3, <2>4 DEF SummaryShape, Converts
  <2>6. RowsAreHoldings(n)
    <3>1. \A q, h, gone : Position(n, q, h, gone) = Position(s, q, h, gone)
      BY <2>4 DEF Position, Converts
    <3> QED
      BY <2>3, <2>4, <3>1 DEF RowsAreHoldings, RowsOfPortfolio
  <2> QED
    BY <1>3, <2>2, <2>4, <2>5, <2>6 DEF SummaryOK, Settled
<1>4. CASE ~(s.at = "reading" /\ t <= s.cutoff)
  <2>1. summary' = summary
    BY <1>4 DEF CommitTransfer
  <2>2. CASE s.at = "reading"
    <3>1. s.cutoff \in Int /\ s.cutoff < t
      BY <1>2, <1>4, <2>2 DEF SummaryOK, SummaryShape
    <3>2. \A p \in summary.read : Dated(entries', p, summary.cutoff) = Dated(entries, p, summary.cutoff)
      BY <1>1, <1>2, <3>1 DEF Dated
    <3> QED
      BY <2>1, <3>2, SummaryStands DEF Settled
  <2>3. CASE s.at # "reading"
    <3>1. RowsAreHoldings(summary)' <=> RowsAreHoldings(summary')
      BY DEF RowsAreHoldings, RowsOfPortfolio, Position, HoldingAt, Converts
    <3> QED
      BY <2>1, <2>3, <3>1 DEF SummaryOK
  <2> QED
    BY <2>2, <2>3
<1> QED
  BY <1>3, <1>4

LEMMA SummaryKept ==
  ASSUME NavInv, SummaryOK, [NavNext]_<<groupVars, reportVars, navVars>>
  PROVE  SummaryOK'
<1>1. CASE UNCHANGED <<existing, entries, summary>>
  BY <1>1, SummaryStands DEF Settled
<1>2. CASE (TransfersNext \/ SummaryNext) /\ UNCHANGED <<groupVars, navVars>>
  <2>1. existing' = existing
    BY <1>2 DEF groupVars
  <2>2. CASE CommitTransfer
    BY <2>1, <2>2, CommitKeepsSummary
  <2>3. CASE AbandonTransfer \/ \E m \in Movements : StampTransfer(m)
    BY <1>1, <2>1, <2>3 DEF AbandonTransfer, StampTransfer
  <2>4. ASSUME NEW cutoff \in 0..moment, NEW rates \in RateTables, BeginSummary(cutoff, rates) PROVE SummaryOK'
    BY <2>4, BeginKeepsSummary
  <2>5. ASSUME NEW p \in Portfolios, NEW gaps, ReadPortfolio(p, gaps) PROVE SummaryOK'
    BY <2>1, <2>5, ReadKeepsSummary
  <2>6. CASE FinishSummary
    BY <2>6, FinishKeepsSummary
  <2> QED
    BY <1>2, <2>2, <2>3, <2>4, <2>5, <2>6 DEF TransfersNext, SummaryNext
<1>3. ASSUME NEW p \in Portfolios, DeletesPortfolio(p) PROVE SummaryOK'
  <2>1. /\ summary' = summary /\ existing' = existing \ {p}
        /\ entries' = {e \in entries : e.portfolio # p}
    BY <1>3 DEF DeletesPortfolio, DeletePortfolio, DeleteMember
  <2>2. Settled' => \A q \in summary.read : Dated(entries', q, summary.cutoff) = Dated(entries, q, summary.cutoff)
    BY <2>1 DEF Settled, Dated
  <2> QED
    BY <2>1, <2>2, SummaryStands DEF Settled
<1>4. CASE MembershipNext /\ UNCHANGED <<reportVars, navVars>>
  BY <1>1, <1>4 DEF MembershipNext, GroupClockTicks, DeleteGroup, CreateGroup, ReplaceMembers, ReadMembers, reportVars
<1>5. CASE SeriesNext /\ UNCHANGED <<groupVars, reportVars>>
  BY <1>1, <1>5 DEF groupVars, reportVars
<1>6. CASE UNCHANGED <<groupVars, reportVars, navVars>>
  BY <1>1, <1>6 DEF groupVars, reportVars
<1> QED
  BY <1>2, <1>3, <1>4, <1>5, <1>6 DEF NavNext

LEMMA SummaryInit == ReportsInit => SummaryOK
BY DEF ReportsInit, NoSummary, SummaryOK

\* consolidated_summary and _currency_exposure: a report drops nothing.  What is
\* priced is in its total, or listed as unconverted, and the coverage it states is
\* the share of the one in both.
THEOREM ReportsDropNothing == NavSpec => []ReportAddsUp
<1>1. SummaryOK => ReportAddsUp
  <2> SUFFICES ASSUME SummaryOK, Done PROVE ReportAddsUp
    BY DEF ReportAddsUp, NothingIsLost, CoverageIsAShare
  <2>1. PICK s : s = summary
    OBVIOUS
  <2>2. SummaryShape(s) /\ SummaryShape(summary)
    BY <2>1 DEF SummaryOK, Done
  <2>3. TotalValue(summary) = ExposuresTotal(summary)
    BY <2>2, TotalIsOfExposures
  <2>4. UnconvertedValue(summary) = ExposuresUnconverted(summary)
    BY <2>2, UnconvertedIsOfExposures
  <2>5. NothingIsLost
    BY <2>3, <2>4 DEF NothingIsLost, ExposuresTotal, ExposuresUnconverted
  <2>6. ASSUME TotalValue(s) >= 0, \A c \in Currencies : Converts(s, c) \/ ExposureLocal(s, c) >= 0
        PROVE  /\ 0 <= Coverage(s).part /\ Coverage(s).part <= Coverage(s).whole
               /\ (Coverage(s).part = Coverage(s).whole) <=>
                    (\A c \in Currencies : Converts(s, c) \/ ExposureLocal(s, c) = 0)
    BY <2>2, <2>6, CoverageIs
  <2>7. CoverageIsAShare
    BY <2>1, <2>6 DEF CoverageIsAShare
  <2> QED
    BY <2>5, <2>7 DEF ReportAddsUp
<1> QED
  BY <1>1, NavInvInit, NavInvNext, SummaryInit, SummaryKept, PTL DEF NavSpec

-----------------------------------------------------------------------------
(* A summary is one of its cutoff *)

\* The worth of a portfolio: its cash, and its rows.
CashWorth(s) == [p \in Portfolios |-> s.rates[BaseCurrency[p]] * CashAt(p, s.cutoff)]
RowsWorth(s) == [p \in Portfolios |-> SumOn(RowAmounts(s), RowsOfPortfolio(s, p))]

\* The holdings of a portfolio that have a price, and what they are worth.
Priced(s, p) ==
  {h \in HoldingAt(p, s.cutoff) :
     \E row \in s.positions : row.portfolio = p /\ row.ticker = h.ticker /\ row.priced}
WorthOfHoldings(s, H) == SumOf(LAMBDA h : s.rates[h.currency] * h.value, H)

LEMMA SumOfHoldings ==
  ASSUME NEW s, NEW H
  PROVE  WorthOfHoldings(s, H) = SumOn([h \in H |-> s.rates[h.currency] * h.value], H)
BY ZenonT(40) DEF WorthOfHoldings, SumOf, SumOn, MapThenSumSet, MapThenFoldSet

LEMMA WorthOfPriced ==
  ASSUME NEW s, NEW p
  PROVE  Worth(s, p) =
           (IF Converts(s, BaseCurrency[p]) THEN s.rates[BaseCurrency[p]] * CashAt(p, s.cutoff) ELSE 0)
           + WorthOfHoldings(s, Priced(s, p))
BY DEF Worth, WorthOfHoldings, Priced

LEMMA RowsWorthIs ==
  ASSUME NEW s, SummaryShape(s), RowsAreHoldings(s), NEW p \in s.read
  PROVE  SumOn(RowAmounts(s), RowsOfPortfolio(s, p)) = WorthOfHoldings(s, Priced(s, p))
<1> DEFINE H == HoldingAt(p, s.cutoff)
           P == Priced(s, p)
           plain == [h \in P |-> s.rates[h.currency] * h.value]
           worth == WorthOfHoldings(s, P)
<1>1. PICK gone \in SUBSET s.unpriced : RowsOfPortfolio(s, p) = {Position(s, p, h, gone) : h \in H}
  BY DEF RowsAreHoldings
<1>2. worth = SumOn(plain, P)
  BY SumOfHoldings
<1> DEFINE name == [h \in H |-> Position(s, p, h, gone)]
           g == RowAmounts(s)
           all == [h \in H |-> s.rates[h.currency] * (IF h.ticker \notin gone THEN h.value ELSE 0)]
<1>3. p \in Portfolios /\ s.rates \in [Currencies -> Nat] /\ BaseCurrency[p] \in Currencies
  BY ConsolidationAssumption DEF SummaryShape
<1>4. IsFiniteSet(H) /\ \A h \in H : h.currency = BaseCurrency[p] /\ h.value \in Nat
  BY <1>3, HoldingsAre
<1>5. \A x, y \in H : x.ticker = y.ticker => x = y
  BY <1>3, HoldingsAre
<1>6. ASSUME NEW h \in H
      PROVE  /\ name[h] \in s.positions /\ name[h].portfolio = p /\ name[h].ticker = h.ticker
             /\ name[h].currency = h.currency /\ name[h].priced = (h.ticker \notin gone)
             /\ name[h].value = (IF h.ticker \notin gone THEN h.value ELSE 0)
  <2>1. name[h] \in RowsOfPortfolio(s, p)
    BY <1>1
  <2>2. name[h] \in s.positions /\ name[h].portfolio = p
    BY <2>1 DEF RowsOfPortfolio
  <2>3. name[h] = Position(s, p, h, gone)
    OBVIOUS
  <2> QED
    BY <2>2, <2>3 DEF Position
<1>7. ASSUME NEW h \in H PROVE all[h] = g[name[h]] /\ all[h] \in Int
  <2>1. g[name[h]] = s.rates[name[h].currency] * name[h].value
    BY <1>6 DEF RowAmounts
  <2>2. s.rates[h.currency] \in Int /\ (IF h.ticker \notin gone THEN h.value ELSE 0) \in Int
    BY <1>3, <1>4
  <2>3. all[h] \in Int
    BY <2>2, ProductIs
  <2> QED
    BY <1>6, <2>1, <2>3
<1>8. \A x, y \in H : name[x] = name[y] => x = y
  BY <1>5, <1>6
<1>9. P = {h \in H : h.ticker \notin gone}
  <2> USE DEF Priced
  <2>1. ASSUME NEW h \in H, NEW row \in s.positions, row.portfolio = p, row.ticker = h.ticker, row.priced
        PROVE  h.ticker \notin gone
    <3>1. row \in RowsOfPortfolio(s, p)
      BY <2>1 DEF RowsOfPortfolio
    <3>2. PICK x \in H : row = name[x]
      BY <1>1, <3>1
    <3> HIDE DEF name
    <3>3. row.ticker = x.ticker /\ row.priced = (x.ticker \notin gone)
      BY <1>6, <3>2
    <3> QED
      BY <2>1, <3>3
  <2> QED
    BY <1>6, <2>1
<1>10. RowsOfPortfolio(s, p) = {name[h] : h \in H}
  BY <1>1
<1>11. P \in SUBSET H /\ IsFiniteSet(P) /\ (\A h \in H \ P : all[h] = 0) /\ \A h \in P : plain[h] = all[h]
  <2>1. ASSUME NEW h \in H \ P PROVE all[h] = 0
    <3>1. all[h] = s.rates[h.currency] * 0 /\ s.rates[h.currency] \in Int
      BY <1>3, <1>4, <1>9, <2>1
    <3> QED
      BY <3>1
  <2>2. P \in SUBSET H /\ IsFiniteSet(P)
    BY <1>4, FS_Subset DEF Priced
  <2>3. \A h \in P : plain[h] = all[h]
    BY <1>9
  <2> QED
    BY <2>1, <2>2, <2>3
<1> HIDE DEF name, g, all, H, P, plain, worth
<1>12. SumOn(g, {name[h] : h \in H}) = SumOn(all, H)
  <2>1. IsFiniteSet(H) /\ \A h \in H : all[h] = g[name[h]] /\ all[h] \in Int
    BY <1>4, <1>7
  <2> QED
    BY <1>8, <2>1, SumOnRenamed
<1>13. SumOn(all, H) = SumOn(all, P)
  <2>1. (\A h \in H : all[h] \in Int) /\ \A h \in H \ P : all[h] = 0
    BY <1>7, <1>11
  <2> QED
    BY <1>4, <1>11, <2>1, SumOnNonzero
<1>14. SumOn(all, P) = SumOn(plain, P)
  <2>1. \A h \in P : all[h] = plain[h] /\ all[h] \in Int
    BY <1>7, <1>11
  <2> QED
    BY <1>11, <2>1, SumOnSame
<1>15. SumOn(g, RowsOfPortfolio(s, p)) = worth
  BY <1>2, <1>10, <1>12, <1>13, <1>14
<1> QED
  BY <1>15 DEF g, worth, P, H

LEMMA WorthIs ==
  ASSUME NEW s, SummaryShape(s), RowsAreHoldings(s), JournalOK, NEW p \in s.read
  PROVE  /\ CashWorth(s)[p] \in Int /\ RowsWorth(s)[p] \in Int
         /\ Worth(s, p) = CashWorth(s)[p] + RowsWorth(s)[p]
         /\ p \in Liabilities => RowsWorth(s)[p] = 0
<1>1. p \in Portfolios /\ s.rates \in [Currencies -> Nat] /\ BaseCurrency[p] \in Currencies
  BY ConsolidationAssumption DEF SummaryShape
<1>2. CashAt(p, s.cutoff) \in Int /\ s.rates[BaseCurrency[p]] \in Int
  BY <1>1, CashAtIs
<1>3. CashWorth(s)[p] = s.rates[BaseCurrency[p]] * CashAt(p, s.cutoff) /\ CashWorth(s)[p] \in Int
  BY <1>1, <1>2, ProductIs DEF CashWorth
<1>4. (IF Converts(s, BaseCurrency[p]) THEN s.rates[BaseCurrency[p]] * CashAt(p, s.cutoff) ELSE 0)
        = CashWorth(s)[p]
  <2>1. CASE Converts(s, BaseCurrency[p])
    BY <1>3, <2>1
  <2>2. CASE ~Converts(s, BaseCurrency[p])
    BY <1>2, <1>3, <2>2 DEF Converts, NoRate
  <2> QED
    BY <2>1, <2>2
<1> DEFINE R == RowsOfPortfolio(s, p)
           g == RowAmounts(s)
<1>5. IsFiniteSet(R) /\ \A row \in R : g[row] \in Int
  BY SummaryNumbers, FS_Subset DEF RowsOfPortfolio, SummaryShape
<1>6. RowsWorth(s)[p] = SumOn(g, R)
  BY <1>1 DEF RowsWorth
<1>7. SumOn(g, R) \in Int
  <2> HIDE DEF g, R
  <2> QED
    BY <1>5, SumOnInt
<1>8. p \in Liabilities => SumOn(g, R) = 0
  <2> SUFFICES ASSUME p \in Liabilities PROVE SumOn(g, R) = 0
    OBVIOUS
  <2>1. HoldingAt(p, s.cutoff) = {}
    BY ConsolidationAssumption DEF HoldingAt
  <2>2. R = {}
    BY <2>1 DEF RowsAreHoldings
  <2> HIDE DEF g, R
  <2> QED
    BY <2>2, SumOnNothing
<1>9. Worth(s, p) = CashWorth(s)[p] + SumOn(g, R)
  <2>1. Worth(s, p) = CashWorth(s)[p] + WorthOfHoldings(s, Priced(s, p))
    BY <1>4, WorthOfPriced
  <2>2. SumOn(g, R) = WorthOfHoldings(s, Priced(s, p))
    BY RowsWorthIs
  <2> QED
    BY <2>1, <2>2
<1> QED
  BY <1>3, <1>6, <1>7, <1>8, <1>9

\* Converting the totals of the currencies is converting portfolio by portfolio.
LEMMA ConvertedByCurrency ==
  ASSUME NEW s, SummaryShape(s), JournalOK, NEW R \in SUBSET s.read, NEW cash,
         \A c \in Currencies : cash[c] = SumOn(CashBy(s.cutoff), PartOf(R, BaseCurrency, c))
  PROVE  SumOn(Amounts(s.rates, cash), Currencies) = SumOn(CashWorth(s), R)
<1> DEFINE g == CashWorth(s)
           b == CashBy(s.cutoff)
           totals == Amounts(s.rates, cash)
<1>1. R \subseteq Portfolios /\ IsFiniteSet(R) /\ \A c \in Currencies : s.rates[c] \in Int
  BY CashByIs, SummaryNumbers, FS_Subset DEF SummaryShape
<1>2. ASSUME NEW p \in R
      PROVE  /\ b[p] \in Int /\ g[p] \in Int /\ BaseCurrency[p] \in Currencies
             /\ g[p] = s.rates[BaseCurrency[p]] * b[p]
  <2>1. p \in Portfolios /\ b[p] = CashAt(p, s.cutoff) /\ b[p] \in Int
    BY <1>1, CashByIs DEF CashBy
  <2>2. BaseCurrency[p] \in Currencies
    BY <2>1, ConsolidationAssumption
  <2>3. g[p] = s.rates[BaseCurrency[p]] * b[p]
    BY <2>1 DEF CashWorth
  <2> QED
    BY <1>1, <2>1, <2>2, <2>3, ProductIs
<1>3. \A c \in Currencies : totals[c] = s.rates[c] * cash[c]
  BY DEF Amounts
<1>4. \A c \in Currencies : cash[c] = SumOn(b, PartOf(R, BaseCurrency, c))
  OBVIOUS
<1> HIDE DEF g, b, totals
<1>5. ASSUME NEW c \in Currencies
      PROVE  totals[c] = SumOn(g, PartOf(R, BaseCurrency, c))
  <2> DEFINE P == PartOf(R, BaseCurrency, c)
             factor == s.rates[c]
  <2>1. IsFiniteSet(P) /\ factor \in Int /\ \A p \in P : b[p] \in Int /\ g[p] = factor * b[p]
    BY <1>1, <1>2, FS_Subset DEF PartOf
  <2>2. totals[c] = factor * SumOn(b, P)
    BY <1>3, <1>4
  <2> HIDE DEF P, factor
  <2>3. SumOn(g, P) = factor * SumOn(b, P)
    BY <2>1, SumOnScaled
  <2> QED
    BY <2>2, <2>3 DEF P
<1>6. SumOn(g, R) = SumOn(totals, Currencies)
  <2>1. /\ IsFiniteSet(R) /\ IsFiniteSet(Currencies)
        /\ \A p \in R : g[p] \in Int /\ BaseCurrency[p] \in Currencies
    BY <1>1, <1>2, ConsolidationAssumption
  <2> QED
    BY <1>5, <2>1, SumOnParts
<1> QED
  BY <1>6 DEF g, totals

WorthOfAll(s, R) == SumOf(LAMBDA p : Worth(s, p), R)

LEMMA WorthOfAllIs ==
  ASSUME NEW s, SummaryShape(s), RowsAreHoldings(s), JournalOK, NEW R \in SUBSET s.read
  PROVE  /\ SumOn(CashWorth(s), R) \in Int /\ SumOn(RowsWorth(s), R) \in Int
         /\ WorthOfAll(s, R) = SumOn(CashWorth(s), R) + SumOn(RowsWorth(s), R)
<1> DEFINE g == CashWorth(s)
           h == RowsWorth(s)
           k == [p \in R |-> Worth(s, p)]
           worth == WorthOfAll(s, R)
<1>1. worth = SumOn(k, R)
  BY ZenonT(40) DEF WorthOfAll, SumOf, SumOn, MapThenSumSet, MapThenFoldSet
<1>2. ASSUME NEW p \in R PROVE g[p] \in Int /\ h[p] \in Int /\ k[p] = g[p] + h[p]
  BY WorthIs
<1>3. IsFiniteSet(R)
  BY CashByIs, FS_Subset DEF SummaryShape
<1> HIDE DEF g, h, k, worth
<1>4. SumOn(k, R) = SumOn(g, R) + SumOn(h, R)
  BY <1>2, <1>3, SumOnPlus
<1>5. SumOn(g, R) \in Int /\ SumOn(h, R) \in Int
  BY <1>2, <1>3, SumOnInt
<1> QED
  BY <1>1, <1>4, <1>5 DEF g, h, worth

LEMMA RowsOfAll ==
  ASSUME NEW s, SummaryShape(s)
  PROVE  SumOn(RowAmounts(s), s.positions) = SumOn(RowsWorth(s), s.read)
<1> DEFINE g == RowAmounts(s)
           S == s.positions
           C == s.read
           part == [row \in S |-> row.portfolio]
           totals == RowsWorth(s)
<1>1. IsFiniteSet(S) /\ IsFiniteSet(C) /\ C \subseteq Portfolios
  BY ConsolidationAssumption, FS_Subset DEF SummaryShape
<1>2. \A row \in S : g[row] \in Int /\ part[row] \in C
  BY SummaryNumbers DEF SummaryShape
<1>3. ASSUME NEW p \in C PROVE totals[p] = SumOn(g, PartOf(S, part, p))
  <2>1. PartOf(S, part, p) = RowsOfPortfolio(s, p)
    BY DEF PartOf, RowsOfPortfolio
  <2>2. p \in Portfolios
    BY <1>1
  <2> QED
    BY <2>1, <2>2 DEF RowsWorth
<1> HIDE DEF g, S, C, part, totals
<1>4. SumOn(g, S) = SumOn(totals, C)
  BY <1>1, <1>2, <1>3, SumOnParts
<1> QED
  BY <1>4 DEF g, S, C, totals

\* What is owned is what the accounts are worth that are not of the liability
\* kind, and what is owed what those of it are.
LEMMA ValuesAreWorths ==
  ASSUME NEW s, SummaryShape(s), RowsAreHoldings(s), CashAddsUp(s), JournalOK
  PROVE  /\ TotalValue(s) = WorthOfAll(s, s.read)
         /\ AssetsValue(s) = WorthOfAll(s, s.read \ Liabilities)
         /\ LiabilitiesValue(s) = WorthOfAll(s, s.read \cap Liabilities)
<1> DEFINE R == s.read
           L == s.read \cap Liabilities
           K == s.read \ Liabilities
           g == CashWorth(s)
           h == RowsWorth(s)
<1>1. CashValue(s) = SumOn(g, R)
  <2>1. R \in SUBSET s.read /\ \A c \in Currencies : s.cash[c] = SumOn(CashBy(s.cutoff), PartOf(R, BaseCurrency, c))
    BY DEF CashAddsUp
  <2> DEFINE cash == s.cash
  <2>2. CashValue(s) = SumOn(Amounts(s.rates, cash), Currencies)
    BY SummarySums, ConvertingSums
  <2>3. \A c \in Currencies : cash[c] = SumOn(CashBy(s.cutoff), PartOf(R, BaseCurrency, c))
    BY <2>1
  <2> HIDE DEF R, cash
  <2>4. SumOn(Amounts(s.rates, cash), Currencies) = SumOn(CashWorth(s), R)
    BY <2>1, <2>3, ConvertedByCurrency
  <2> QED
    BY <2>2, <2>4
<1>2. LiabilitiesValue(s) = SumOn(g, L)
  <2>1. L \in SUBSET s.read /\ \A c \in Currencies : s.debt[c] = SumOn(CashBy(s.cutoff), PartOf(L, BaseCurrency, c))
    BY DEF CashAddsUp
  <2> DEFINE cash == s.debt
  <2>2. LiabilitiesValue(s) = SumOn(Amounts(s.rates, cash), Currencies)
    BY SummarySums, ConvertingSums
  <2>3. \A c \in Currencies : cash[c] = SumOn(CashBy(s.cutoff), PartOf(L, BaseCurrency, c))
    BY <2>1
  <2> HIDE DEF L, cash
  <2>4. SumOn(Amounts(s.rates, cash), Currencies) = SumOn(CashWorth(s), L)
    BY <2>1, <2>3, ConvertedByCurrency
  <2> QED
    BY <2>2, <2>4
<1>3. Securities(s) = SumOn(h, R)
  <2>1. Securities(s) = SumOn(RowAmounts(s), s.positions)
    BY SummarySums, ConvertingSums
  <2> QED
    BY <2>1, RowsOfAll
<1>4. /\ WorthOfAll(s, R) = SumOn(g, R) + SumOn(h, R) /\ SumOn(g, R) \in Int /\ SumOn(h, R) \in Int
      /\ WorthOfAll(s, L) = SumOn(g, L) + SumOn(h, L) /\ SumOn(g, L) \in Int /\ SumOn(h, L) \in Int
      /\ WorthOfAll(s, K) = SumOn(g, K) + SumOn(h, K) /\ SumOn(g, K) \in Int /\ SumOn(h, K) \in Int
  <2>1. R \in SUBSET s.read /\ L \in SUBSET s.read /\ K \in SUBSET s.read
    OBVIOUS
  <2> HIDE DEF R, L, K
  <2> QED
    BY <2>1, WorthOfAllIs
<1>5. /\ R = K \cup L /\ K \cap L = {} /\ IsFiniteSet(K) /\ IsFiniteSet(L)
  BY CashByIs, FS_Subset DEF SummaryShape
<1>6. \A p \in R : g[p] \in Int /\ h[p] \in Int
  BY WorthIs
<1>7. \A p \in L : h[p] = 0
  BY WorthIs
<1> HIDE DEF R, L, K, g, h
<1>8. SumOn(g, K \cup L) = SumOn(g, K) + SumOn(g, L)
  BY <1>5, <1>6, SumOnUnion
<1>9. SumOn(h, K \cup L) = SumOn(h, K) + SumOn(h, L)
  BY <1>5, <1>6, SumOnUnion
<1>10. SumOn(h, L) = 0
  <2>1. \A p \in L : h[p] \in Int
    BY <1>7
  <2>2. {} \in SUBSET L /\ \A p \in L \ {} : h[p] = 0
    BY <1>7
  <2>3. SumOn(h, L) = SumOn(h, {})
    BY <1>5, <2>1, <2>2, SumOnNonzero
  <2> QED
    BY <2>3, SumOnNothing
<1>11. TotalValue(s) = SumOn(g, R) + SumOn(h, R)
  BY <1>1, <1>3, <1>4 DEF TotalValue
<1>12. AssetsValue(s) = TotalValue(s) - LiabilitiesValue(s)
  BY DEF AssetsValue
<1>13. TotalValue(s) = WorthOfAll(s, R)
  BY <1>4, <1>11
<1>14. LiabilitiesValue(s) = WorthOfAll(s, L)
  BY <1>2, <1>4, <1>10
<1>15. AssetsValue(s) = WorthOfAll(s, K)
  <2>1. SumOn(g, R) = SumOn(g, K) + SumOn(g, L) /\ SumOn(h, R) = SumOn(h, K) + SumOn(h, L)
    BY <1>5, <1>8, <1>9
  <2>2. AssetsValue(s) = SumOn(g, R) + SumOn(h, R) - SumOn(g, L)
    BY <1>2, <1>4, <1>11, <1>12
  <2> QED
    BY <1>4, <1>10, <2>1, <2>2
<1> QED
  BY <1>13, <1>14, <1>15 DEF R, K, L

\* consolidated_summary: although it reads one portfolio after another while
\* transfers are posted, its value is that of its accounts at its cutoff.
THEOREM SummariesAreOfTheirCutoff == NavSpec => SummaryIsOfItsCutoff
<1> DEFINE Right ==
      (summary.at = "reading" /\ Settled) =>
        /\ AssetsValue(summary) = SumOf(LAMBDA p : Worth(summary, p), summary.read \ Liabilities)
        /\ LiabilitiesValue(summary) = SumOf(LAMBDA p : Worth(summary, p), summary.read \cap Liabilities)
           Step ==
      (summary.at = "reading" /\ summary'.at = "done" /\ Settled) =>
        /\ AssetsValue(summary) = SumOf(LAMBDA p : Worth(summary, p), summary.read \ Liabilities)
        /\ LiabilitiesValue(summary) = SumOf(LAMBDA p : Worth(summary, p), summary.read \cap Liabilities)
<1>1. NavInv /\ SummaryOK => Right
  <2> SUFFICES ASSUME NavInv, SummaryOK, summary.at = "reading", Settled PROVE Right
    OBVIOUS
  <2>1. SummaryShape(summary) /\ RowsAreHoldings(summary) /\ CashAddsUp(summary) /\ JournalOK
    BY DEF SummaryOK, NavInv
  <2>2. AssetsValue(summary) = WorthOfAll(summary, summary.read \ Liabilities)
    BY <2>1, ValuesAreWorths
  <2>3. LiabilitiesValue(summary) = WorthOfAll(summary, summary.read \cap Liabilities)
    BY <2>1, ValuesAreWorths
  <2> QED
    BY <2>2, <2>3 DEF WorthOfAll
<1>2. Right => [Step]_consolidationVars
  OBVIOUS
<1> HIDE DEF Right, Step
<1>3. NavSpec => [][Step]_consolidationVars
  BY <1>1, <1>2, NavInvInit, NavInvNext, SummaryInit, SummaryKept, PTL DEF NavSpec
<1> QED
  BY <1>3 DEF SummaryIsOfItsCutoff, Step

-----------------------------------------------------------------------------
(* A series and a summary of the same instant *)

\* turns[T] is the summary after the turns of the portfolios in T, for T in D.
Turns(turns, base, D) ==
  turns = [T \in D |-> IF T = {} THEN base ELSE WithPortfolio(turns[T \ {Chosen(T)}], Chosen(T), {})]

LEMMA TurnsOnce ==
  ASSUME NEW base, NEW S, IsFiniteSet(S), NEW u, Turns(u, base, SUBSET S), NEW v, Turns(v, base, SUBSET S)
  PROVE  u = v
<1> DEFINE Good == {T \in SUBSET S : u[T] = v[T]}
<1>1. ASSUME NEW T \in SUBSET S, \A x \in T : T \ {x} \in Good
      PROVE  T \in Good
  <2>1. /\ u[T] = IF T = {} THEN base ELSE WithPortfolio(u[T \ {Chosen(T)}], Chosen(T), {})
        /\ v[T] = IF T = {} THEN base ELSE WithPortfolio(v[T \ {Chosen(T)}], Chosen(T), {})
    BY DEF Turns
  <2>2. T # {} => u[T \ {Chosen(T)}] = v[T \ {Chosen(T)}]
    BY <1>1, ChosenIs
  <2> QED
    BY <2>1, <2>2
<1>2. u = [s \in SUBSET S |-> u[s]] /\ v = [s \in SUBSET S |-> v[s]]
  BY DEF Turns
<1> HIDE DEF Good
<1>3. SUBSET S \subseteq Good
  BY <1>1, SubsetInduction
<1>4. \A T \in SUBSET S : u[T] = v[T]
  BY <1>3 DEF Good
<1> QED
  BY <1>2, <1>4

LEMMA TurnsExist ==
  ASSUME NEW base, NEW S, IsFiniteSet(S)
  PROVE  \E turns : Turns(turns, base, SUBSET S)
<1> DEFINE Small(n) == {T \in SUBSET S : Cardinality(T) <= n}
           Sizes == {n \in Nat : \E turns : Turns(turns, base, Small(n))}
<1>1. \A T \in SUBSET S : IsFiniteSet(T) /\ Cardinality(T) \in Nat /\ (Cardinality(T) = 0 <=> T = {})
  BY FS_Subset, FS_CardinalityType, FS_EmptySet
<1>2. 0 \in Sizes
  <2> DEFINE turns == [T \in Small(0) |-> base]
  <2>1. \A T \in Small(0) : T = {}
    BY <1>1
  <2> HIDE DEF Small
  <2>2. Turns(turns, base, Small(0))
    BY <2>1 DEF Turns
  <2> QED
    BY <2>2
<1>3. ASSUME NEW n \in Sizes PROVE n + 1 \in Sizes
  <2>1. PICK it : Turns(it, base, Small(n))
    OBVIOUS
  <2> DEFINE Next1(u, T) == WithPortfolio(u[T \ {Chosen(T)}], Chosen(T), {})
             more == [T \in Small(n + 1) |-> IF T \in Small(n) THEN it[T] ELSE Next1(it, T)]
  <2>2. ASSUME NEW T \in Small(n + 1), T # {}
        PROVE  T \ {Chosen(T)} \in Small(n)
    <3>1. Chosen(T) \in T
      BY <2>2, ChosenIs
    <3>2. Cardinality(T \ {Chosen(T)}) = Cardinality(T) - 1 /\ Cardinality(T) \in Nat /\ Cardinality(T) <= n + 1
      BY <1>1, <3>1, FS_RemoveElement
    <3> QED
      BY <3>2
  <2>3. \A T \in Small(n) : T \in Small(n + 1)
    BY <1>1
  <2>4. \A T \in Small(n + 1) : T = {} => T \in Small(n)
    BY <1>1, FS_EmptySet
  <2> HIDE DEF Small, Sizes
  <2>5. \A T \in Small(n) : it[T] = IF T = {} THEN base ELSE Next1(it, T)
    BY <2>1 DEF Turns
  <2>6. ASSUME NEW T \in Small(n + 1)
        PROVE  more[T] = IF T = {} THEN base ELSE Next1(more, T)
    <3>1. CASE T = {}
      BY <2>4, <2>5, <3>1
    <3>2. CASE T # {}
      <4>1. more[T \ {Chosen(T)}] = it[T \ {Chosen(T)}]
        BY <2>2, <2>3, <3>2
      <4>2. more[T] = Next1(it, T)
        BY <2>5, <3>2
      <4> QED
        BY <3>2, <4>1, <4>2
    <3> QED
      BY <3>1, <3>2
  <2>7. Turns(more, base, Small(n + 1))
    BY <2>6 DEF Turns
  <2> QED
    BY <2>7 DEF Sizes
<1>4. Cardinality(S) \in Nat
  BY <1>1
<1>5. Small(Cardinality(S)) = SUBSET S
  BY <1>1, FS_Subset
<1> HIDE DEF Sizes
<1>6. Cardinality(S) \in Sizes
  BY <1>2, <1>3, <1>4, NaturalInduction
<1> QED
  BY <1>5, <1>6 DEF Sizes

LEMMA AtOnceTurns ==
  ASSUME NEW ids, IsFiniteSet(ids), NEW cutoff, NEW rates, NEW turns,
         Turns(turns, Begun(ids, cutoff, rates), SUBSET ids)
  PROVE  AtOnce(ids, cutoff, rates) = turns[ids]
<1>1. \A u : Turns(u, Begun(ids, cutoff, rates), SUBSET ids) => u = turns
  BY TurnsOnce
<1> QED
  BY <1>1 DEF AtOnce, FoldSet, MapThenFoldSet, Turns, Chosen

\* The summary that is read in one step.
LEMMA AtOnceIs ==
  ASSUME NEW ids \in SUBSET Portfolios, NEW cutoff \in Int, NEW rates \in RateTables, JournalOK,
         NEW s, s = AtOnce(ids, cutoff, rates)
  PROVE  /\ SummaryShape(s) /\ RowsAreHoldings(s) /\ CashAddsUp(s)
         /\ s.read = ids /\ s.unpriced = {} /\ s.cutoff = cutoff /\ s.rates = rates
<1>1. IsFiniteSet(ids)
  BY ConsolidationAssumption, FS_Subset
<1>2. PICK base : base = Begun(ids, cutoff, rates)
  OBVIOUS
<1>3. PICK turns : Turns(turns, base, SUBSET ids)
  BY <1>1, TurnsExist
<1> DEFINE Fine(u, T) == /\ SummaryShape(u) /\ RowsAreHoldings(u) /\ CashAddsUp(u)
                         /\ u.read = T /\ u.left = ids \ T /\ u.unpriced = {} /\ u.cutoff = cutoff /\ u.rates = rates
           Good == {T \in SUBSET ids : Fine(turns[T], T)}
<1>4. Fine(base, {})
  <2>1. SummaryShape(base) /\ RowsAreHoldings(base) /\ CashAddsUp(base)
    BY <1>2, BegunIs
  <2>2. /\ base.left = ids /\ base.read = {} /\ base.unpriced = {} /\ base.rates = rates /\ base.cutoff = cutoff
    BY <1>2, BegunFields
  <2> QED
    BY <2>1, <2>2
<1>5. ASSUME NEW T \in SUBSET ids, \A x \in T : T \ {x} \in Good
      PROVE  T \in Good
  <2>1. turns[T] = IF T = {} THEN base ELSE WithPortfolio(turns[T \ {Chosen(T)}], Chosen(T), {})
    BY <1>3 DEF Turns
  <2>2. CASE T = {}
    BY <1>4, <2>1, <2>2
  <2>3. CASE T # {}
    <3>1. PICK p : p = Chosen(T)
      OBVIOUS
    <3>2. p \in T /\ p \in Portfolios
      BY <2>3, <3>1, ChosenIs
    <3>3. PICK u : u = turns[T \ {p}]
      OBVIOUS
    <3>4. Fine(u, T \ {p})
      BY <1>5, <3>2, <3>3
    <3>5. PICK n : n = WithPortfolio(u, p, {})
      OBVIOUS
    <3>6. turns[T] = n
      BY <2>1, <2>3, <3>1, <3>3, <3>5
    <3>7. p \in u.left
      BY <3>2, <3>4
    <3>8. SummaryShape(n) /\ RowsAreHoldings(n)
      BY <3>2, <3>4, <3>5, <3>7, WithPortfolioKeepsShape
    <3>9. CashAddsUp(n)
      BY <3>2, <3>4, <3>5, <3>7, WithPortfolioAddsUp
    <3>10. /\ n.cutoff = u.cutoff /\ n.rates = u.rates /\ n.left = u.left \ {p} /\ n.read = u.read \cup {p}
           /\ n.unpriced = u.unpriced
      BY <3>4, <3>5, WithPortfolioFields
    <3>11. n.read = T /\ n.left = ids \ T
      BY <3>2, <3>4, <3>10
    <3> QED
      BY <3>4, <3>6, <3>8, <3>9, <3>10, <3>11
  <2> QED
    BY <2>2, <2>3
<1> HIDE DEF Good
<1>6. SUBSET ids \subseteq Good
  BY <1>1, <1>5, SubsetInduction
<1>7. Fine(turns[ids], ids)
  BY <1>6 DEF Good
<1>8. s = turns[ids]
  BY <1>1, <1>2, <1>3, AtOnceTurns
<1> QED
  BY <1>7, <1>8

\* The value of an account in its own currency, whatever converts.
ValueOfEach(H) == [h \in H |-> h.value]
HoldingsValue(p, cutoff) == SumOn(ValueOfEach(HoldingAt(p, cutoff)), HoldingAt(p, cutoff))
HeldBy(cutoff) == [p \in Portfolios |-> HoldingsValue(p, cutoff)]
AccountValue(cutoff) == [p \in Portfolios |-> CashAt(p, cutoff) + HoldingsValue(p, cutoff)]

LEMMA HoldingsValueIs ==
  ASSUME NEW p \in Portfolios, NEW cutoff
  PROVE  HoldingsValue(p, cutoff) \in Nat
<1> DEFINE H == HoldingAt(p, cutoff)
           g == ValueOfEach(H)
<1>1. IsFiniteSet(H) /\ \A h \in H : g[h] \in Nat
  BY HoldingsAre DEF ValueOfEach
<1> HIDE DEF g, H
<1>2. SumOn(g, H) \in Nat
  BY <1>1, SumOnNat
<1> QED
  BY <1>2 DEF HoldingsValue, g, H

\* With a price for every ticker, the rows of a portfolio have the values of its holdings.
LEMMA PricedRows ==
  ASSUME NEW s, SummaryShape(s), RowsAreHoldings(s), s.unpriced = {}, NEW p \in s.read
  PROVE  /\ SumOn(RowValues(s), RowsOfPortfolio(s, p)) = HoldingsValue(p, s.cutoff)
         /\ \A row \in RowsOfPortfolio(s, p) : row.priced /\ row.currency = BaseCurrency[p]
<1> DEFINE H == HoldingAt(p, s.cutoff)
           name == [h \in H |-> Position(s, p, h, {})]
           g == RowValues(s)
           values == ValueOfEach(H)
<1>1. RowsOfPortfolio(s, p) = {name[h] : h \in H}
  BY DEF RowsAreHoldings
<1>2. p \in Portfolios
  BY DEF SummaryShape
<1>3. IsFiniteSet(H) /\ \A h \in H : h.currency = BaseCurrency[p] /\ h.value \in Nat
  BY <1>2, HoldingsAre
<1>4. ASSUME NEW h \in H
      PROVE  /\ name[h] \in s.positions /\ name[h].ticker = h.ticker
             /\ name[h].currency = BaseCurrency[p] /\ name[h].priced /\ name[h].value = h.value
  <2>1. name[h] \in RowsOfPortfolio(s, p)
    BY <1>1
  <2>2. name[h] = Position(s, p, h, {})
    OBVIOUS
  <2> QED
    BY <1>3, <2>1, <2>2 DEF Position, RowsOfPortfolio
<1>5. \A x, y \in H : name[x] = name[y] => x = y
  <2>1. \A x, y \in H : x.ticker = y.ticker => x = y
    BY <1>2, HoldingsAre
  <2> HIDE DEF name, H
  <2> QED
    BY <1>4, <2>1
<1>6. \A h \in H : values[h] = g[name[h]] /\ values[h] \in Int
  BY <1>3, <1>4 DEF ValueOfEach, RowValues
<1> HIDE DEF name, g, values, H
<1>7. SumOn(g, {name[h] : h \in H}) = SumOn(values, H)
  BY <1>3, <1>5, <1>6, SumOnRenamed
<1>8. \A row \in RowsOfPortfolio(s, p) : row.priced /\ row.currency = BaseCurrency[p]
  BY <1>1, <1>4
<1> QED
  BY <1>1, <1>7, <1>8 DEF HoldingsValue, g, values, H

LEMMA AccountWorth ==
  ASSUME NEW s, SummaryShape(s), RowsAreHoldings(s), s.unpriced = {}, JournalOK, NEW p \in s.read
  PROVE  /\ AccountValue(s.cutoff)[p] \in Int /\ s.rates[BaseCurrency[p]] \in Int
         /\ AccountValue(s.cutoff)[p] = CashBy(s.cutoff)[p] + HeldBy(s.cutoff)[p]
         /\ CashBy(s.cutoff)[p] \in Int /\ HeldBy(s.cutoff)[p] \in Int
         /\ Worth(s, p) = s.rates[BaseCurrency[p]] * AccountValue(s.cutoff)[p]
<1> DEFINE rate == s.rates[BaseCurrency[p]]
           cash == CashAt(p, s.cutoff)
           held == HoldingsValue(p, s.cutoff)
           R == RowsOfPortfolio(s, p)
<1>1. p \in Portfolios /\ s.rates \in [Currencies -> Nat] /\ BaseCurrency[p] \in Currencies
  BY ConsolidationAssumption DEF SummaryShape
<1>2. rate \in Int /\ cash \in Int /\ held \in Int
  BY <1>1, CashAtIs, HoldingsValueIs
<1>3. /\ AccountValue(s.cutoff)[p] = cash + held /\ CashBy(s.cutoff)[p] = cash /\ HeldBy(s.cutoff)[p] = held
      /\ CashWorth(s)[p] = rate * cash /\ RowsWorth(s)[p] = SumOn(RowAmounts(s), R)
  BY <1>1 DEF AccountValue, CashBy, HeldBy, CashWorth, RowsWorth
<1>4. SumOn(RowAmounts(s), R) = rate * held
  <2> DEFINE g == RowValues(s)
             h == RowAmounts(s)
  <2>1. SumOn(g, R) = held /\ \A row \in R : row.currency = BaseCurrency[p]
    BY PricedRows
  <2>2. IsFiniteSet(R) /\ R \subseteq s.positions
    BY FS_Subset DEF RowsOfPortfolio, SummaryShape
  <2>3. ASSUME NEW row \in R PROVE g[row] \in Int /\ h[row] = rate * g[row]
    <3>1. row \in s.positions /\ row.currency = BaseCurrency[p]
      BY <2>1, <2>2
    <3>2. g[row] = row.value /\ h[row] = s.rates[row.currency] * row.value
      BY <3>1 DEF RowValues, RowAmounts
    <3>3. g[row] \in Nat
      BY <3>1, SummaryNumbers
    <3> QED
      BY <3>1, <3>2, <3>3
  <2> HIDE DEF g, h, R, rate, held
  <2>4. SumOn(h, R) = rate * SumOn(g, R)
    BY <1>2, <2>2, <2>3, SumOnScaled
  <2> QED
    BY <2>1, <2>4 DEF h
<1>5. Worth(s, p) = CashWorth(s)[p] + RowsWorth(s)[p]
  BY WorthIs
<1> HIDE DEF rate, cash, held, R
<1>6. rate * (cash + held) = rate * cash + rate * held
  BY <1>2, ProductDistributes
<1>7. Worth(s, p) = rate * AccountValue(s.cutoff)[p]
  BY <1>3, <1>4, <1>5, <1>6
<1>8. AccountValue(s.cutoff)[p] \in Int
  BY <1>2, <1>3
<1> QED
  BY <1>2, <1>3, <1>7, <1>8 DEF rate

\* What does not convert is the value of the accounts of such a currency.
Foreign(s) == {p \in s.read : ~Converts(s, BaseCurrency[p])}

LEMMA UnconvertedIsOfAccounts ==
  ASSUME NEW s, SummaryShape(s), RowsAreHoldings(s), CashAddsUp(s), s.unpriced = {}, JournalOK
  PROVE  UnconvertedValue(s) = SumOn(AccountValue(s.cutoff), Foreign(s))
<1> DEFINE D == Currencies \ Converting(s)
           N == Foreign(s)
           listed == {row \in s.positions : row.priced /\ ~row.converted}
           g == RowValues(s)
           cash == s.cash
           b == CashBy(s.cutoff)
           held == HeldBy(s.cutoff)
           all == AccountValue(s.cutoff)
           portfolio == [row \in listed |-> row.portfolio]
<1>1. IsFiniteSet(N) /\ IsFiniteSet(D) /\ N \subseteq s.read /\ N \subseteq Portfolios
  BY ConsolidationAssumption, FS_Subset DEF SummaryShape, Foreign
<1>2. ASSUME NEW p \in N
      PROVE  /\ b[p] \in Int /\ held[p] \in Int /\ all[p] = b[p] + held[p]
             /\ BaseCurrency[p] \in D /\ held[p] = HoldingsValue(p, s.cutoff)
  <2>1. p \in s.read /\ p \in Portfolios /\ BaseCurrency[p] \in D
    BY <1>1, ConsolidationAssumption DEF Foreign, Converting
  <2>2. b[p] \in Int /\ held[p] \in Int /\ all[p] = b[p] + held[p]
    BY <2>1, AccountWorth
  <2>3. held[p] = HoldingsValue(p, s.cutoff)
    BY <2>1 DEF HeldBy
  <2> QED
    BY <2>1, <2>2, <2>3
<1>3. ASSUME NEW row \in s.positions
      PROVE  /\ row.portfolio \in s.read /\ row.priced /\ row.currency = BaseCurrency[row.portfolio]
             /\ row \in listed <=> row.portfolio \in N
  <2>1. row.portfolio \in s.read /\ row \in RowsOfPortfolio(s, row.portfolio)
    BY DEF SummaryShape, RowsOfPortfolio
  <2>2. row.priced /\ row.currency = BaseCurrency[row.portfolio]
    BY <2>1, PricedRows
  <2>3. row.converted <=> Converts(s, row.currency)
    BY <2>2 DEF SummaryShape
  <2> QED
    BY <2>1, <2>2, <2>3 DEF Foreign
<1>4. SumOn(g, listed) = SumOn(held, N)
  <2>1. IsFiniteSet(listed)
    BY FS_Subset DEF SummaryShape
  <2>2. \A row \in listed : g[row] \in Int /\ portfolio[row] \in N
    BY <1>3, SummaryNumbers
  <2>3. ASSUME NEW p \in N PROVE held[p] = SumOn(g, PartOf(listed, portfolio, p))
    <3>1. PartOf(listed, portfolio, p) = RowsOfPortfolio(s, p)
      BY <1>3 DEF PartOf, RowsOfPortfolio
    <3>2. p \in s.read
      BY <1>1
    <3> QED
      BY <1>2, <3>1, <3>2, PricedRows
  <2> HIDE DEF g, listed, portfolio, held, N
  <2> QED
    BY <1>1, <2>1, <2>2, <2>3, SumOnParts
<1>5. SumOn(b, N) = SumOn(cash, D)
  <2>1. ASSUME NEW c \in D PROVE cash[c] = SumOn(b, PartOf(N, BaseCurrency, c))
    <3>1. PartOf(N, BaseCurrency, c) = PartOf(s.read, BaseCurrency, c)
      BY DEF PartOf, Foreign, Converting
    <3> QED
      BY <3>1 DEF CashAddsUp
  <2>2. \A p \in N : b[p] \in Int /\ BaseCurrency[p] \in D
    BY <1>2
  <2> HIDE DEF b, N, cash, D
  <2> QED
    BY <1>1, <2>1, <2>2, SumOnParts
<1>6. UnconvertedValue(s) = SumOn(g, listed) + SumOn(cash, D)
  BY SummarySums
<1> HIDE DEF N, D, listed, g, cash, b, held, all
<1>7. SumOn(all, N) = SumOn(b, N) + SumOn(held, N)
  BY <1>1, <1>2, SumOnPlus
<1>8. SumOn(b, N) \in Int /\ SumOn(held, N) \in Int
  BY <1>1, <1>2, SumOnInt
<1> QED
  BY <1>4, <1>5, <1>6, <1>7, <1>8 DEF all, N

\* A snapshot is made of as many entries of its portfolio as it says, up to its
\* instant, and of the holdings there were then: all of them, unless it is partial.
MadeOf(row, E) ==
  /\ \E K \in SUBSET Dated(E, row.portfolio, row.asOf) :
       /\ Cardinality(K) = row.knows
       /\ row.cash = OpeningAt(row.portfolio, row.asOf) + SumOn(Amount(K), K)
  /\ ~row.partial => row.securities = HoldingsValue(row.portfolio, row.asOf)

SnapshotsAreMade == \A row \in stored : MadeOf(row, entries)

\* A series is of its members, at rates there are.
SeriesIsOfMembers ==
  /\ series.at \in {"members", "snapshots", "done"} => series.members \subseteq Portfolios
  /\ series.at \in {"snapshots", "done"} =>
       /\ series.rates \in RateTables
       /\ \A row \in series.found : row.portfolio \in series.members

LEMMA MadeInit == NavInit => SnapshotsAreMade /\ SeriesIsOfMembers
BY DEF NavInit, NoSeries, SnapshotsAreMade, SeriesIsOfMembers

LEMMA SumOfValues ==
  ASSUME NEW H
  PROVE  SumOf(LAMBDA h : h.value, H) = SumOn(ValueOfEach(H), H)
BY ZenonT(40) DEF ValueOfEach, SumOf, SumOn, MapThenSumSet, MapThenFoldSet

LEMMA TakenIsMade ==
  ASSUME NavInv, NEW p \in Portfolios, NEW gaps, NEW d \in 0..DayOf(moment), TakeSnapshot(p, d, gaps),
         NEW row \in stored' \ stored
  PROVE  MadeOf(row, entries)
<1> DEFINE asOf == Min({DayEnd(d), moment})
           H == HoldingAt(p, asOf)
           K == Dated(entries, p, asOf)
           whole == SumOf(LAMBDA h : h.value, {h \in H : h.ticker \notin gaps})
<1> DEFINE taken == [portfolio |-> p, day |-> d, asOf |-> asOf, knows |-> EntriesKnown(p, asOf),
                     cash |-> CashAt(p, asOf), securities |-> whole, partial |-> \E h \in H : h.ticker \in gaps]
<1>a. stored' = stored \cup {taken}
  BY DEF TakeSnapshot
<1>b. row = taken
  <2> HIDE DEF taken
  <2> QED
    BY <1>a
<1>1. /\ row.portfolio = p /\ row.asOf = asOf /\ row.knows = EntriesKnown(p, asOf) /\ row.cash = CashAt(p, asOf)
      /\ row.securities = whole /\ row.partial = (\E h \in H : h.ticker \in gaps)
  <2> HIDE DEF asOf, whole, H
  <2> QED
    BY <1>b
<1>2. row.cash = OpeningAt(p, asOf) + SumOn(Amount(K), K)
  BY <1>1, TransferredSum
<1>3. row.knows = Cardinality(K)
  BY <1>1 DEF EntriesKnown, Dated
<1>4. ~row.partial => row.securities = HoldingsValue(p, asOf)
  <2> SUFFICES ASSUME ~row.partial PROVE whole = HoldingsValue(p, asOf)
    BY <1>1
  <2>1. {h \in H : h.ticker \notin gaps} = H
    BY <1>1
  <2> HIDE DEF H
  <2>2. SumOf(LAMBDA h : h.value, H) = SumOn(ValueOfEach(H), H)
    BY SumOfValues
  <2> USE DEF H
  <2> QED
    BY <2>1, <2>2 DEF HoldingsValue
<1> HIDE DEF asOf, whole, H
<1>5. row.asOf = asOf /\ row.portfolio = p
  BY <1>1
<1> QED
  BY <1>2, <1>3, <1>4, <1>5 DEF MadeOf

LEMMA MadeKept ==
  ASSUME NavInv, SnapshotsAreMade, SeriesIsOfMembers, [NavNext]_<<groupVars, reportVars, navVars>>
  PROVE  SnapshotsAreMade' /\ SeriesIsOfMembers'
<1>1. CASE entries \subseteq entries' /\ UNCHANGED navVars
  <2>1. \A row : Dated(entries, row.portfolio, row.asOf) \subseteq Dated(entries', row.portfolio, row.asOf)
    BY <1>1 DEF Dated
  <2>2. ASSUME NEW row \in stored' PROVE MadeOf(row, entries')
    <3>1. MadeOf(row, entries)
      BY <1>1 DEF SnapshotsAreMade, navVars
    <3> QED
      BY <2>1, <3>1 DEF MadeOf
  <2> QED
    BY <1>1, <2>2 DEF SnapshotsAreMade, SeriesIsOfMembers, navVars
<1>2. ASSUME NEW p \in Portfolios, DeletesPortfolio(p)
      PROVE  SnapshotsAreMade' /\ SeriesIsOfMembers'
  <2>1. /\ stored' = {row \in stored : row.portfolio # p} /\ series' = series
        /\ entries' = {e \in entries : e.portfolio # p}
    BY <1>2 DEF DeletesPortfolio, DeletePortfolio
  <2>2. ASSUME NEW row \in stored' PROVE MadeOf(row, entries')
    <3>1. MadeOf(row, entries) /\ row.portfolio # p
      BY <2>1 DEF SnapshotsAreMade
    <3>2. Dated(entries', row.portfolio, row.asOf) = Dated(entries, row.portfolio, row.asOf)
      BY <2>1, <3>1 DEF Dated
    <3> QED
      BY <3>1, <3>2 DEF MadeOf
  <2> QED
    BY <2>1, <2>2 DEF SnapshotsAreMade, SeriesIsOfMembers
<1>3. ASSUME NEW p \in Portfolios, NEW gaps, NEW d \in 0..DayOf(moment), TakeSnapshot(p, d, gaps),
             UNCHANGED <<groupVars, reportVars>>
      PROVE  SnapshotsAreMade' /\ SeriesIsOfMembers'
  <2>1. entries' = entries /\ series' = series
    BY <1>3 DEF TakeSnapshot, reportVars
  <2>2. ASSUME NEW row \in stored' PROVE MadeOf(row, entries')
    BY <1>3, <2>1, TakenIsMade DEF SnapshotsAreMade
  <2> QED
    BY <2>1, <2>2 DEF SnapshotsAreMade, SeriesIsOfMembers
<1>4. CASE (BeginSeries \/ FinishSeries \/ \E rates \in RateTables : ReadSnapshots(rates))
           /\ UNCHANGED <<groupVars, reportVars>>
  <2>1. stored' = stored /\ entries' = entries
    BY <1>4 DEF BeginSeries, FinishSeries, ReadSnapshots, reportVars
  <2>2. SnapshotsAreMade'
    BY <2>1 DEF SnapshotsAreMade
  <2>3. CASE BeginSeries
    <3>1. CurrentMembers \subseteq Portfolios
      BY DEF NavInv, GroupsInv, TablesOK, CurrentMembers
    <3> QED
      BY <2>2, <2>3, <3>1 DEF BeginSeries, SeriesIsOfMembers
  <2>4. CASE FinishSeries
    BY <2>2, <2>4 DEF FinishSeries, SeriesIsOfMembers
  <2>5. ASSUME NEW rates \in RateTables, ReadSnapshots(rates)
        PROVE  SeriesIsOfMembers'
    BY <2>5 DEF ReadSnapshots, SeriesIsOfMembers, NoSeries
  <2> QED
    BY <1>4, <2>2, <2>3, <2>4, <2>5
<1>5. CASE CommitTransfer /\ UNCHANGED <<groupVars, navVars>>
  BY <1>1, <1>5 DEF CommitTransfer
<1>6. CASE UNCHANGED <<entries, navVars>>
  BY <1>1, <1>6
<1>7. CASE TransfersNext /\ UNCHANGED <<groupVars, navVars>>
  BY <1>5, <1>6, <1>7 DEF TransfersNext, AbandonTransfer, StampTransfer
<1> QED
  BY <1>2, <1>3, <1>4, <1>6, <1>7, NavSteps DEF SeriesNext, reportVars

\* A snapshot that knows all there is to know has the value of its account.
LEMMA CurrentIs ==
  ASSUME NavInv, SnapshotsAreMade, NEW row \in stored, NEW cutoff, Current(row, cutoff)
  PROVE  Total(row) = AccountValue(cutoff)[row.portfolio]
<1> DEFINE p == row.portfolio
           E == Dated(entries, p, cutoff)
<1>1. row.asOf = cutoff /\ row.knows = EntriesKnown(p, cutoff) /\ ~row.partial
  BY DEF Current
<1>2. MadeOf(row, entries)
  BY DEF SnapshotsAreMade
<1>3. PICK K \in SUBSET E : /\ Cardinality(K) = row.knows
                            /\ row.cash = OpeningAt(p, cutoff) + SumOn(Amount(K), K)
  BY <1>1, <1>2 DEF MadeOf
<1>4. K = E
  <2>1. IsFiniteSet(E)
    BY FS_Subset DEF Dated, NavInv, JournalOK
  <2>2. Cardinality(E) = Cardinality(K)
    BY <1>1, <1>3 DEF EntriesKnown, Dated
  <2> QED
    BY <2>1, <2>2, FS_Subset
<1>5. row.cash = CashAt(p, cutoff)
  <2>1. row.cash = OpeningAt(p, cutoff) + SumOn(Amount(E), E)
    BY <1>3, <1>4
  <2> QED
    BY <2>1, TransferredSum
<1>6. row.securities = HoldingsValue(p, cutoff)
  BY <1>1, <1>2 DEF MadeOf
<1>7. p \in Portfolios
  BY DEF NavInv, StoredOK, GroupsInv, TablesOK
<1> QED
  BY <1>5, <1>6, <1>7 DEF Total, AccountValue

\* One row for each member: a sum over rows is one over members.
LEMMA RowsOverMembers ==
  ASSUME NEW R, IsFiniteSet(R), NEW M, IsFiniteSet(M), NEW name, \A row \in R : name[row] \in M,
         \A a, b \in R : name[a] = name[b] => a = b, Cardinality(R) = Cardinality(M),
         NEW Q \in SUBSET M, NEW S \in SUBSET R, \A row \in R : row \in S <=> name[row] \in Q,
         NEW g, NEW h, \A row \in S : h[row] = g[name[row]] /\ h[row] \in Int
  PROVE  SumOn(h, S) = SumOn(g, Q)
<1> DEFINE f == [row \in R |-> name[row]]
<1>1. f \in Injection(R, M)
  BY DEF Injection, IsInjective
<1>2. f \in Surjection(R, M)
  BY <1>1, FS_Injection
<1>3. \A q \in Q : \E row \in S : name[row] = q
  <2>1. \A q \in M : \E row \in R : f[row] = q
    BY <1>2 DEF Surjection
  <2> QED
    BY <2>1
<1>4. Q = {name[row] : row \in S}
  BY <1>3
<1>5. IsFiniteSet(S)
  BY FS_Subset
<1>6. SumOn(g, {name[row] : row \in S}) = SumOn(h, S)
  BY <1>5, SumOnRenamed
<1> QED
  BY <1>4, <1>6

Worths(s) == [p \in s.read |-> Worth(s, p)]

LEMMA WorthOfAllOn ==
  ASSUME NEW s, NEW R \in SUBSET s.read
  PROVE  WorthOfAll(s, R) = SumOn([p \in R |-> Worth(s, p)], R)
<1> DEFINE worth == WorthOfAll(s, R)
           k == [p \in R |-> Worth(s, p)]
<1>1. worth = SumOn(k, R)
  BY ZenonT(40) DEF WorthOfAll, SumOf, SumOn, MapThenSumSet, MapThenFoldSet
<1> QED
  BY <1>1

\* Where nothing converts nothing is counted.
LEMMA WorthOfConverting ==
  ASSUME NEW s, SummaryShape(s), RowsAreHoldings(s), s.unpriced = {}, JournalOK, NEW R \in SUBSET s.read
  PROVE  WorthOfAll(s, R) = SumOn(Worths(s), R \ Foreign(s))
<1> DEFINE w == Worths(s)
           worth == WorthOfAll(s, R)
           k == [p \in R |-> Worth(s, p)]
           F == Foreign(s)
<1>1. worth = SumOn(k, R)
  BY WorthOfAllOn
<1>2. IsFiniteSet(R)
  BY CashByIs, FS_Subset DEF SummaryShape
<1>3. ASSUME NEW p \in R PROVE k[p] = w[p] /\ k[p] \in Int /\ (p \in F => w[p] = 0)
  <2>1. /\ Worth(s, p) = s.rates[BaseCurrency[p]] * AccountValue(s.cutoff)[p]
        /\ AccountValue(s.cutoff)[p] \in Int /\ s.rates[BaseCurrency[p]] \in Int
    BY AccountWorth
  <2>2. k[p] = Worth(s, p) /\ w[p] = Worth(s, p)
    BY DEF Worths
  <2>3. Worth(s, p) \in Int
    BY <2>1, ProductIs
  <2>4. p \in F => s.rates[BaseCurrency[p]] = 0
    BY DEF Foreign, Converts, NoRate
  <2> QED
    BY <2>1, <2>2, <2>3, <2>4
<1> HIDE DEF w, worth, k, F
<1>4. SumOn(k, R) = SumOn(w, R)
  BY <1>2, <1>3, SumOnSame
<1>5. SumOn(w, R) = SumOn(w, R \ F)
  <2>1. (\A p \in R : w[p] \in Int) /\ R \ F \in SUBSET R /\ \A p \in R \ (R \ F) : w[p] = 0
    BY <1>3
  <2> QED
    BY <1>2, <2>1, SumOnNonzero
<1> QED
  BY <1>1, <1>4, <1>5 DEF w, F, worth

RowTotals(R) == [row \in R |-> Total(row)]
RowWorths(t, R) == [row \in R |-> WorthOf(t, row)]
OwedRows(t, d) == {row \in Counted(t, d) : row.portfolio \in Liabilities}

LEMMA PointSums ==
  ASSUME NEW t, NEW d
  PROVE  /\ NetValue(t, d) = SumOn(RowWorths(t, RowsOf(t, d)), Counted(t, d))
         /\ Owed(t, d) = SumOn(RowWorths(t, RowsOf(t, d)), OwedRows(t, d))
         /\ SumOf(Total, Excluded(t, d)) = SumOn(RowTotals(RowsOf(t, d)), Excluded(t, d))
<1>1. Excluded(t, d) \subseteq RowsOf(t, d) /\ Counted(t, d) \subseteq RowsOf(t, d)
      /\ OwedRows(t, d) \subseteq RowsOf(t, d)
  BY DEF Excluded, Counted, OwedRows
<1>2. NetValue(t, d) = SumOn(RowWorths(t, RowsOf(t, d)), Counted(t, d))
  BY <1>1, ZenonT(40) DEF NetValue, RowWorths, SumOf, SumOn, MapThenSumSet, MapThenFoldSet
<1>3. Owed(t, d) = SumOn(RowWorths(t, RowsOf(t, d)), OwedRows(t, d))
  BY <1>1, ZenonT(40) DEF Owed, OwedRows, RowWorths, SumOf, SumOn, MapThenSumSet, MapThenFoldSet
<1>4. SumOf(Total, Excluded(t, d)) = SumOn(RowTotals(RowsOf(t, d)), Excluded(t, d))
  BY <1>1, ZenonT(40) DEF RowTotals, SumOf, SumOn, MapThenSumSet, MapThenFoldSet
<1> QED
  BY <1>2, <1>3, <1>4

\* A point with one row for each account, each of the value of the account.
LEMMA PointOfAccounts ==
  ASSUME NEW s, SummaryShape(s), RowsAreHoldings(s), CashAddsUp(s), s.unpriced = {}, JournalOK,
         NEW t, t.rates = s.rates, NEW d, IsFiniteSet(RowsOf(t, d)),
         \A row \in RowsOf(t, d) :
           row.portfolio \in s.read /\ Total(row) = AccountValue(s.cutoff)[row.portfolio],
         \A a, b \in RowsOf(t, d) : a.portfolio = b.portfolio => a = b,
         Cardinality(RowsOf(t, d)) = Cardinality(s.read)
  PROVE  /\ NetValue(t, d) = TotalValue(s)
         /\ Owed(t, d) = LiabilitiesValue(s)
         /\ SumOf(Total, Excluded(t, d)) = UnconvertedValue(s)
<1> DEFINE R == RowsOf(t, d)
           M == s.read
           L == s.read \cap Liabilities
           F == Foreign(s)
           C == Counted(t, d)
           O == OwedRows(t, d)
           name == [row \in R |-> row.portfolio]
           value == AccountValue(s.cutoff)
           worth == Worths(s)
           total == RowTotals(R)
           worthOf == RowWorths(t, R)
<1>1. ASSUME NEW row \in R
      PROVE  /\ name[row] \in M
             /\ total[row] = value[name[row]] /\ total[row] \in Int
             /\ worthOf[row] = worth[name[row]] /\ worthOf[row] \in Int
             /\ (row \in C) <=> (name[row] \in M \ F)
             /\ (row \in O) <=> (name[row] \in L \ F)
             /\ (row \notin C /\ row \notin Excluded(t, d)) => total[row] = 0
  <2> DEFINE p == row.portfolio
  <2>1. /\ p \in M /\ value[p] \in Int /\ s.rates[BaseCurrency[p]] \in Int
        /\ Worth(s, p) = s.rates[BaseCurrency[p]] * value[p]
    BY AccountWorth
  <2>2. Total(row) = value[p] /\ total[row] = Total(row) /\ name[row] = p
    BY DEF RowTotals
  <2>3. worthOf[row] = s.rates[BaseCurrency[p]] * value[p]
    BY <2>2 DEF RowWorths, WorthOf
  <2>4. worth[p] = Worth(s, p)
    BY <2>1 DEF Worths
  <2>5. worthOf[row] \in Int
    BY <2>1, <2>3, ProductIs
  <2>6. Converts(t, BaseCurrency[p]) <=> Converts(s, BaseCurrency[p])
    BY DEF Converts
  <2>7. (row \in C) <=> (p \in M \ F)
    BY <2>1, <2>6 DEF Counted, Foreign
  <2>8. (row \in O) <=> (p \in L \ F)
    BY <2>1, <2>7 DEF OwedRows
  <2>9. (row \notin C /\ row \notin Excluded(t, d)) => Total(row) = 0
    BY DEF Excluded
  <2> QED
    BY <2>1, <2>2, <2>3, <2>4, <2>5, <2>7, <2>8, <2>9
<1>2. C \in SUBSET R /\ O \in SUBSET R /\ Excluded(t, d) \subseteq R \ C
  BY DEF Counted, OwedRows, Excluded
<1>3. IsFiniteSet(M) /\ M \ F \in SUBSET M /\ L \ F \in SUBSET M /\ F \in SUBSET M
  BY CashByIs, FS_Subset DEF SummaryShape, Foreign
<1>4. \A a, b \in R : name[a] = name[b] => a = b
  OBVIOUS
<1>5. /\ NetValue(t, d) = SumOn(worthOf, C) /\ Owed(t, d) = SumOn(worthOf, O)
      /\ SumOf(Total, Excluded(t, d)) = SumOn(total, Excluded(t, d))
  BY PointSums
<1>6. /\ TotalValue(s) = WorthOfAll(s, M) /\ LiabilitiesValue(s) = WorthOfAll(s, L)
      /\ UnconvertedValue(s) = SumOn(value, F)
  BY ValuesAreWorths, UnconvertedIsOfAccounts
<1>7. WorthOfAll(s, M) = SumOn(worth, M \ F) /\ WorthOfAll(s, L) = SumOn(worth, L \ F)
  BY WorthOfConverting
<1>8. IsFiniteSet(R) /\ Cardinality(R) = Cardinality(M)
  OBVIOUS
<1>9. PICK E : E = Excluded(t, d)
  OBVIOUS
<1> HIDE DEF R, M, L, F, C, O, name, value, worth, total, worthOf
<1>10. SumOn(worthOf, C) = SumOn(worth, M \ F)
  BY <1>1, <1>2, <1>3, <1>4, <1>8, RowsOverMembers
<1>11. SumOn(worthOf, O) = SumOn(worth, L \ F)
  BY <1>1, <1>2, <1>3, <1>4, <1>8, RowsOverMembers
<1>12. SumOn(total, R \ C) = SumOn(value, F)
  <2>1. R \ C \in SUBSET R /\ \A row \in R : (row \in R \ C) <=> (name[row] \in F)
    BY <1>1, <1>2
  <2> QED
    BY <1>1, <1>3, <1>4, <1>8, <2>1, RowsOverMembers
<1>13. SumOn(total, R \ C) = SumOn(total, E)
  <2>1. E \in SUBSET (R \ C) /\ \A row \in (R \ C) \ E : total[row] = 0
    BY <1>1, <1>2, <1>9
  <2>2. IsFiniteSet(R \ C) /\ \A row \in R \ C : total[row] \in Int
    BY <1>1, <1>8, FS_Subset
  <2> QED
    BY <2>1, <2>2, SumOnNonzero
<1> QED
  BY <1>5, <1>6, <1>7, <1>9, <1>10, <1>11, <1>12, <1>13

\* group_nav_series and consolidated_summary: where they answer the same question,
\* for the same members, rates and cutoff, the two ways to value a group agree.
THEOREM SeriesAndSummaryAgree == NavSpec => []SeriesAgreesWithSummary
<1>1. NavInv /\ SnapshotsAreMade /\ SeriesIsOfMembers => SeriesAgreesWithSummary
  <2> SUFFICES ASSUME NavInv, SnapshotsAreMade, SeriesIsOfMembers, series.at = "done",
                      NEW d \in Points(series),
                      Cardinality(RowsOf(series, d)) = Cardinality(series.members),
                      \A row \in RowsOf(series, d) : row \in stored /\ Current(row, DayEnd(d)),
                      NEW s, s = AtOnce(series.members, DayEnd(d), series.rates)
               PROVE  /\ NetValue(series, d) = TotalValue(s)
                      /\ Owed(series, d) = LiabilitiesValue(s)
                      /\ SumOf(Total, Excluded(series, d)) = UnconvertedValue(s)
    BY DEF SeriesAgreesWithSummary
  <2>1. /\ series.members \in SUBSET Portfolios /\ series.rates \in RateTables
        /\ \A row \in series.found : row.portfolio \in series.members
    BY DEF SeriesIsOfMembers
  <2>2. JournalOK /\ IsFiniteSet(series.found) /\ \A row \in series.found : row.day \in Nat
    BY DEF NavInv, SeriesOK
  <2>3. DayEnd(d) \in Int
    BY <2>2, DayEndsAre DEF Points
  <2>4. /\ SummaryShape(s) /\ RowsAreHoldings(s) /\ CashAddsUp(s)
        /\ s.read = series.members /\ s.unpriced = {} /\ s.cutoff = DayEnd(d) /\ s.rates = series.rates
    BY <2>1, <2>2, <2>3, AtOnceIs
  <2>5. IsFiniteSet(RowsOf(series, d))
    BY <2>2, FS_Subset DEF RowsOf
  <2>6. \A row \in RowsOf(series, d) :
          row.portfolio \in s.read /\ Total(row) = AccountValue(s.cutoff)[row.portfolio]
    BY <2>1, <2>4, CurrentIs DEF RowsOf
  <2>7. \A a, b \in RowsOf(series, d) : a.portfolio = b.portfolio => a = b
    BY DEF RowsOf, NavInv, StoredOK
  <2> QED
    BY <2>2, <2>4, <2>5, <2>6, <2>7, PointOfAccounts
<1> QED
  BY <1>1, NavInvInit, NavInvNext, MadeInit, MadeKept, PTL DEF NavSpec
=============================================================================
