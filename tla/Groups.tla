------------------------------- MODULE Groups -------------------------------
(***************************************************************************)
(* A portfolio group and its effective-dated members.                      *)
(*                                                                         *)
(* A row says that a portfolio is a member from an instant, and to another *)
(* or for good.  Replacing the members reads the rows of the moment, and   *)
(* writes in a later step: requests overlap.                               *)
(***************************************************************************)
EXTENDS Integers, Sequences, FiniteSetsExt

CONSTANTS
  Portfolios,
  created_at,     \* created_at[p]: the instant portfolio p was opened
  MemberLists,    \* the lists of portfolios requests name
  Editors,        \* request-serving threads
  GroupStart, GroupHorizon,   \* the instants a behaviour spans
  EditTicks       \* the longest a request takes

ASSUME GroupsAssumption ==
  /\ GroupStart \in Nat /\ GroupHorizon \in Nat /\ GroupStart <= GroupHorizon /\ EditTicks \in Nat
  /\ created_at \in [Portfolios -> 0..GroupStart]
  /\ \A list \in MemberLists : \A i \in DOMAIN list : list[i] \in Portfolios

VARIABLES
  moment,         \* the clock
  existing,       \* the portfolios there are
  group,          \* whether the group exists
  rows,           \* portfolio_group_members
  editor,         \* editor[e]: the replacement that thread e is at
  overlapped      \* whether two replacements of this group ever overlapped

groupVars == <<moment, existing, group, rows, editor, overlapped>>

NoEnd == -1
Member == [portfolio: Portfolios, from: Nat, to: Nat \cup {NoEnd}]
Idler == [at |-> "idle"]

\* One row for a portfolio and a beginning: uq_group_member_interval.
GroupsTypeOK ==
  /\ moment \in GroupStart..GroupHorizon
  /\ existing \subseteq Portfolios /\ group \in BOOLEAN /\ overlapped \in BOOLEAN
  /\ rows \subseteq Member
  /\ \A a, b \in rows : (a.portfolio = b.portfolio /\ a.from = b.from) => a = b
  /\ \A a \in rows : a.portfolio \in existing
  /\ \A e \in Editors : editor[e].at \in {"idle", "editing", "done"}

GroupsInit ==
  /\ moment = GroupStart /\ existing = Portfolios
  /\ group = FALSE /\ rows = {}
  /\ editor = [e \in Editors |-> Idler]
  /\ overlapped = FALSE

RowsAt(t) == {row \in rows : row.from <= t /\ (row.to = NoEnd \/ row.to > t)}
\* member_portfolio_ids, and the members of a summary, are a set.
MembersAt(t) == {row.portfolio : row \in RowsAt(t)}
\* _current_members.
CurrentMembers == {row.portfolio : row \in {row \in rows : row.to = NoEnd}} \cap existing

Listed(list) == {list[i] : i \in DOMAIN list}
Editing(e) == editor[e].at = "editing"

-----------------------------------------------------------------------------
GroupClockTicks ==
  /\ moment < GroupHorizon
  /\ \A e \in Editors : Editing(e) => moment < editor[e].now + EditTicks
  /\ moment' = moment + 1
  /\ editor' = [e \in Editors |-> IF Editing(e) THEN editor[e] ELSE Idler]
  /\ UNCHANGED <<existing, group, rows, overlapped>>

\* create_group: every portfolio once, from its own inception.
CreateGroup(list) ==
  /\ ~group /\ list # <<>> /\ Listed(list) \subseteq existing
  /\ group' = TRUE
  /\ rows' = {[portfolio |-> p, from |-> created_at[p], to |-> NoEnd] : p \in Listed(list)}
  /\ UNCHANGED <<moment, existing, editor, overlapped>>

\* delete_group, the rows with it.
DeleteGroup ==
  /\ group
  /\ group' = FALSE /\ rows' = {}
  /\ editor' = [e \in Editors |-> IF Editing(e) THEN [editor[e] EXCEPT !.gone = TRUE] ELSE Idler]
  /\ overlapped' = FALSE
  /\ UNCHANGED <<moment, existing>>

\* delete_portfolio: the rows of the portfolio go with it.
DeleteMember(p) ==
  /\ p \in existing
  /\ existing' = existing \ {p}
  /\ rows' = {row \in rows : row.portfolio # p}
  /\ UNCHANGED <<moment, group, editor, overlapped>>

\* replace_members up to its writes: of several rows of a portfolio the one that
\* began last is the one it knows.
ReadMembers(e, list) ==
  LET current == {row \in RowsAt(moment) :
                    \A other \in RowsAt(moment) : other.portfolio = row.portfolio => other.from <= row.from}
  IN  /\ ~Editing(e) /\ group /\ Listed(list) \subseteq existing
      /\ editor' = [editor EXCEPT ![e] =
           [at |-> "editing", now |-> moment, list |-> list, current |-> current, gone |-> FALSE]]
      /\ overlapped' = (overlapped \/ \E f \in Editors \ {e} : Editing(f))
      /\ UNCHANGED <<moment, existing, group, rows>>

Closed(s) == {row \in s.current : row.portfolio \notin Listed(s.list)}
Known(s) == {row.portfolio : row \in s.current}
\* One row for every place in the list whose portfolio is not a member.
Added(s) == {i \in DOMAIN s.list : s.list[i] \notin Known(s)}

\* Mutant: there is no unique key on a portfolio and a beginning.
ConflictsOfReferences(s) ==
  \/ ~group \/ s.gone
  \/ \E row \in Closed(s) : \A r \in rows : r.portfolio # row.portfolio \/ r.from # row.from
  \/ \E i \in Added(s) : s.list[i] \notin existing

\* The rows it would insert collide with each other or with rows there are, or
\* what it would update or refer to is gone.
Conflicts(s) ==
  \/ ~group \/ s.gone
  \/ \E row \in Closed(s) : \A r \in rows : r.portfolio # row.portfolio \/ r.from # row.from
  \/ \E i \in Added(s) : s.list[i] \notin existing
  \/ \E i, j \in Added(s) : i # j /\ s.list[i] = s.list[j]
  \/ \E i \in Added(s), row \in rows : row.portfolio = s.list[i] /\ row.from = s.now

NewRows(s) == {[portfolio |-> s.list[i], from |-> s.now, to |-> NoEnd] : i \in Added(s)}
SameRow(a, b) == a.portfolio = b.portfolio /\ a.from = b.from

\* Mutant: the rows of members that leave are deleted.
RowsDeleted(s) == {row \in rows : \A c \in Closed(s) : ~SameRow(row, c)} \cup NewRows(s)
\* Mutant: members are added, and nobody leaves.
RowsAdded(s) == rows \cup NewRows(s)
\* The rows of members that leave end now, and new ones begin.
RowsReplaced(s) ==
  {IF \E c \in Closed(s) : SameRow(row, c) THEN [row EXCEPT !.to = s.now] ELSE row : row \in rows}
  \cup NewRows(s)

\* The writes and the commit of replace_members, all or none.
ReplaceMembers(e) ==
  LET s == editor[e]
  IN  /\ Editing(e)
      /\ rows' = IF Conflicts(s) THEN rows ELSE RowsReplaced(s)
      /\ editor' = [f \in Editors |->
           CASE f = e /\ ~Conflicts(s) -> [at |-> "done", list |-> s.list]
             [] f # e /\ Editing(f) -> editor[f]
             [] OTHER -> Idler]
      /\ UNCHANGED <<moment, existing, group, overlapped>>

MembershipNext ==
  \/ GroupClockTicks \/ DeleteGroup
  \/ \E list \in MemberLists : CreateGroup(list)
  \/ \E e \in Editors : ReplaceMembers(e) \/ \E list \in MemberLists : ReadMembers(e, list)

GroupsNext == MembershipNext \/ \E p \in Portfolios : DeleteMember(p)

GroupsSpec == GroupsInit /\ [][GroupsNext]_groupVars

-----------------------------------------------------------------------------
(* Properties *)

Since ==
  IF overlapped THEN moment - 2 * EditTicks
  ELSE Min({moment} \cup {editor[e].now : e \in {e \in Editors : Editing(e)}})

\* The comment of PortfolioGroupMember: membership is never edited in place.  No
\* request changes who was in the group at an instant before it began; of two
\* that overlap the later may move an end the other set, but no end of before
\* both.  (Unless the group or the portfolio is deleted.)
HistoryIsNotRestated ==
  [][(group /\ group') =>
       \A t \in 0 .. Since - 1 : MembersAt(t)' = MembersAt(t) \cap existing']_groupVars

\* Unless replacements overlapped, the members are those of the last one from
\* the instant it is through, for a report of that instant and for a series.
MembersAreThoseAsked ==
  \A e \in Editors :
    (editor[e].at = "done" /\ ~overlapped /\ group) =>
      /\ CurrentMembers = Listed(editor[e].list) \cap existing
      /\ MembersAt(moment) = CurrentMembers
=============================================================================
