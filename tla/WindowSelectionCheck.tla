------------------------- MODULE WindowSelectionCheck -------------------------
(***************************************************************************)
(* WindowSelection against a second reading of _select, the one that works *)
(* on ordered rows and list slices as the code does, over every log a      *)
(* bounded history of publications, erasures, session ends and elapsed     *)
(* deadlines can leave behind.                                             *)
(***************************************************************************)
EXTENDS WindowSelection, SequencesExt

CONSTANTS Policies,  \* bound: the request shapes that arrive
          MaxSeq,    \* bound: accepted inputs
          Kind       \* the extractor under test

\* A policy is validated where it is frozen into an admission.
ASSUME PoliciesAssumption ==
  /\ MaxSeq \in Nat
  /\ Policies \subseteq
       [size: Nat \ {0}, session: Sessions, eligible: SUBSET Kinds, force: BOOLEAN,
        width: 1..MaxWidth, stride: 1..MaxWidth, idle: Deadlines, wait: Deadlines]
  /\ \A p \in Policies : p.stride <= p.width

VARIABLES requests, live, after, started

vars == <<requests, live, after, started>>

Init == requests = <<>> /\ live = {} /\ after = 0 /\ started = FALSE

Highwater == IF requests = <<>> THEN 0 ELSE Last(requests).last

Admit(p) ==
  /\ Highwater + p.size <= MaxSeq
  /\ requests' = Append(requests,
       [first |-> Highwater + 1, last |-> Highwater + p.size, session |-> p.session,
        eligible |-> p.eligible, force |-> p.force, finished |-> FALSE,
        width |-> p.width, stride |-> p.stride, idle |-> p.idle, wait |-> p.wait])
  /\ live' = live \cup (Highwater + 1)..(Highwater + p.size)
  /\ UNCHANGED <<after, started>>

Erase(s) == live' = live \ {s} /\ UNCHANGED <<requests, after, started>>

FinishSession(s) ==
  /\ \E i \in LatestOfSession(requests, s) : requests' = [requests EXCEPT ![i].finished = TRUE]
  /\ UNCHANGED <<live, after, started>>

Elapse(i) ==
  /\ \/ requests[i].idle = "later" /\ requests' = [requests EXCEPT ![i].idle = "due"]
     \/ requests[i].wait = "later" /\ requests' = [requests EXCEPT ![i].wait = "due"]
  /\ UNCHANGED <<live, after, started>>

New == NewInputs(requests, live, Kind, after, started)

Complete ==
  /\ \E end \in New : IsGreatest(end, New) /\ after' = end
  /\ started' = TRUE
  /\ UNCHANGED <<requests, live>>

Next ==
  \/ \E p \in Policies : Admit(p)
  \/ \E s \in live : Erase(s)
  \/ \E s \in Sessions : FinishSession(s)
  \/ \E i \in DOMAIN requests : Elapse(i)
  \/ Complete

Spec == Init /\ [][Next]_vars

-----------------------------------------------------------------------------
(* The reference: ordered rows, LIMIT and slices.                          *)

\* ORDER BY: the members of a set, the smallest first.
Rows(S) ==
  CHOOSE rows \in [1..Cardinality(S) -> S] :
    \A i, j \in DOMAIN rows : i < j => rows[i] < rows[j]

Head_n(rows, n) == SubSeq(rows, 1, IF n < Len(rows) THEN n ELSE Len(rows))
Tail_n(rows, n) == SubSeq(rows, (IF n < Len(rows) THEN Len(rows) - n ELSE 0) + 1, Len(rows))

\* What is left of ascending rows behind a barrier's removal ascends.
UpTo(rows, bar) == Rows({s \in ToSet(rows) : s <= bar})

\* MIN over a set of ends, unless a barrier is known; 0 stands for None.
OrFirst(bar, ends) ==
  IF bar = 0 /\ ends # {} THEN CHOOSE e \in ends : \A f \in ends : e <= f ELSE bar

OwnerOf(s)  == CHOOSE i \in DOMAIN requests : s \in SeqsOf(requests[i])
Eligible    == {s \in live : Kind \in requests[OwnerOf(s)].eligible}
PendingRows == Rows({s \in Eligible : s > after})
RowPolicy   == requests[OwnerOf(PendingRows[1])]
ContextRows == Tail_n(Rows({s \in Eligible : s <= after}), RowPolicy.width)
VisibleRows == Head_n(PendingRows, RowPolicy.width)

RowsNeeded ==
  LET rest == RowPolicy.width - Len(ContextRows)
  IN  IF ~started THEN RowPolicy.width
      ELSE IF RowPolicy.stride >= rest THEN RowPolicy.stride ELSE rest

\* Requests with a member among the visible rows.
Seen == {OwnerOf(VisibleRows[i]) : i \in DOMAIN VisibleRows}

RowBarrier ==
  LET forced == {requests[OwnerOf(s)].last : s \in
                   {t \in Eligible : t > after /\ requests[OwnerOf(t)].force}}
      closed == {requests[r].last : r \in
                   {q \in DOMAIN requests :
                      /\ requests[q].finished
                      /\ \E s \in Eligible : /\ after < s /\ s <= requests[q].last
                                             /\ requests[OwnerOf(s)].session = requests[q].session}}
      waits  == IF \E i \in Seen : requests[i].wait = "due"
                THEN {VisibleRows[Len(VisibleRows)]} ELSE {}
      idles  == {requests[r].last : r \in
                   {q \in DOMAIN requests :
                      /\ \A m \in DOMAIN requests :
                           requests[m].session = requests[q].session => m <= q
                      /\ \E i \in Seen : requests[i].session = requests[q].session
                      /\ requests[q].idle = "due"}}
      known  == OrFirst(OrFirst(0, forced), closed)
  IN  IF Len(VisibleRows) < RowsNeeded THEN OrFirst(OrFirst(known, waits), idles) ELSE known

RefWindow ==
  LET bar    == RowBarrier
      chosen == Head_n(IF bar = 0 THEN VisibleRows ELSE UpTo(VisibleRows, bar), RowsNeeded)
  IN  IF PendingRows = <<>> \/ (bar = 0 /\ Len(VisibleRows) < RowsNeeded)
      THEN [new |-> <<>>, manifest |-> <<>>]
      ELSE [new |-> chosen, manifest |-> Tail_n(ContextRows \o chosen, RowPolicy.width)]

-----------------------------------------------------------------------------
\* The set reading selects the rows the list reading selects, and stores the
\* manifest it stores (_select).
AgreesWithRows ==
  LET ref == RefWindow
  IN  /\ New = ToSet(ref.new)
      /\ New # {} => Manifest(requests, live, Kind, after, started) = ToSet(ref.manifest)

=============================================================================
