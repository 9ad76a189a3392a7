----------------------------- MODULE UserLease -----------------------------
(***************************************************************************)
(* The lease of a user's work as an explicit caller holds it: claimed for  *)
(* the extent of a body, renewed by a heartbeat thread of its own, and     *)
(* validated before the caller may report success.                         *)
(*                                                                         *)
(* The heartbeat knows the row only by the answers it gets, each of which  *)
(* may come long after the row was read or be lost.  What it learns it     *)
(* leaves in two flags of the owner, read by the caller at the end.        *)
(*                                                                         *)
(* The row runs out at any moment: its clock is not modelled.  Writes made *)
(* by the body, each fenced, are those of ExtractionStream.                *)
(***************************************************************************)
CONSTANTS
  Callers,   \* threads that run explicit operations of one user
  NoCaller   \* a token nobody holds, or that its claimer never learned

ASSUME LeaseAssumption == NoCaller \notin Callers

VARIABLES
  token,     \* learning_work.lease_token
  unexpired, \* lease_until is to come
  owner,     \* by caller: how far it is, the flags, and the verdict
  beat       \* by caller: what its heartbeat waits for or has been answered

leaseVars == <<token, unexpired, owner, beat>>

Phases == {"away", "claiming", "body", "unlost", "fenced", "leaving"}

\* warned: an answer that told of the loss had been heard when the body ended.
NoOwner == [phase |-> "away", lost |-> FALSE, uncertain |-> FALSE,
            warned |-> FALSE, reported |-> FALSE]

NoBeat == [answer |-> "off", after |-> FALSE]

LeaseTypeOK ==
  /\ token \in Callers \cup {NoCaller}
  /\ unexpired \in BOOLEAN
  /\ owner \in [Callers -> [phase: Phases, lost: BOOLEAN, uncertain: BOOLEAN,
                            warned: BOOLEAN, reported: BOOLEAN]]
  /\ beat \in [Callers -> [answer: {"off", "waiting", "renewed", "refused", "failed"},
                           after: BOOLEAN]]

LeaseInit ==
  /\ token = NoCaller /\ unexpired = FALSE
  /\ owner = [c \in Callers |-> NoOwner]
  /\ beat = [c \in Callers |-> NoBeat]

Owned(c) == token = c /\ unexpired

-----------------------------------------------------------------------------
\* The caller.  A name is used again once its last heartbeat has ended, as a
\* fresh token would be.
AskForLease(c) ==
  /\ owner[c].phase = "away" /\ beat[c] = NoBeat
  /\ owner' = [owner EXCEPT ![c].phase = "claiming"]
  /\ UNCHANGED <<token, unexpired, beat>>

Claim(c) ==
  /\ owner[c].phase = "claiming" /\ ~unexpired
  /\ token' = c /\ unexpired' = TRUE
  /\ owner' = [owner EXCEPT ![c].phase = "body"]
  /\ beat' = [beat EXCEPT ![c].answer = "waiting"]

\* The claim finds the row leased, or fails; the row may have been written.
ClaimFails(c) ==
  /\ owner[c].phase = "claiming"
  /\ \/ UNCHANGED <<token, unexpired>>
     \/ ~unexpired /\ token' = NoCaller /\ unexpired' = TRUE
  /\ owner' = [owner EXCEPT ![c] = NoOwner]
  /\ UNCHANGED beat

\* An extractor that times out cancels the turn it belongs to.
CancelTurn(c) ==
  /\ owner[c].phase = "body"
  /\ owner' = [owner EXCEPT ![c].lost = TRUE]
  /\ UNCHANGED <<token, unexpired, beat>>

Leave(c, success) == [owner EXCEPT ![c].phase = "leaving", ![c].reported = success]

BodyFails(c) ==
  /\ owner[c].phase = "body"
  /\ owner' = Leave(c, FALSE)
  /\ UNCHANGED <<token, unexpired, beat>>

\* The body is done; validate_explicit_return looks at the first flag.
BodyEnds(c) ==
  /\ owner[c].phase = "body"
  /\ owner' = IF owner[c].lost THEN Leave(c, FALSE)
              ELSE [owner EXCEPT ![c].phase = "unlost"]
  /\ UNCHANGED <<token, unexpired, beat>>

\* Slip: a renewal that failed is taken to change nothing.
ReadNothing(c) ==
  /\ owner[c].phase = "unlost"
  /\ owner' = Leave(c, TRUE)
  /\ UNCHANGED <<token, unexpired, beat>>

\* The second flag; when it is up the row itself is asked.
ReadUncertain(c) ==
  /\ owner[c].phase = "unlost"
  /\ owner' = IF ~owner[c].uncertain THEN Leave(c, TRUE)
              ELSE IF owner[c].lost \/ ~Owned(c) THEN Leave(c, FALSE)
              ELSE [owner EXCEPT ![c].phase = "fenced"]
  /\ UNCHANGED <<token, unexpired, beat>>

\* The turn may have been cancelled while the database was waited for.
ReturnFenced(c) ==
  /\ owner[c].phase = "fenced"
  /\ owner' = Leave(c, ~owner[c].lost)
  /\ UNCHANGED <<token, unexpired, beat>>

\* The heartbeat is told to stop and waited for a second; an answer under way
\* is left to it.  The release names the token, and may fail.
Release(c) ==
  /\ owner[c].phase = "leaving"
  /\ \/ token = c /\ token' = NoCaller /\ unexpired' = FALSE
     \/ UNCHANGED <<token, unexpired>>
  /\ owner' = [owner EXCEPT ![c] = NoOwner]
  /\ beat' = [beat EXCEPT ![c] = IF @.answer = "waiting" THEN NoBeat ELSE @]

-----------------------------------------------------------------------------
\* The heartbeat.  A renewal is answered at the row, and heard later.
Renew(c) ==
  /\ beat[c].answer = "waiting" /\ ~owner[c].lost
  /\ \E answer \in {"failed", IF Owned(c) THEN "renewed" ELSE "refused"} :
       beat' = [beat EXCEPT ![c] = [answer |-> answer, after |-> ~Owned(c)]]
  /\ UNCHANGED <<token, unexpired, owner>>

\* The thread ends on its own when the turn is lost.
BeatEnds(c) ==
  /\ beat[c].answer = "waiting" /\ owner[c].lost
  /\ beat' = [beat EXCEPT ![c] = NoBeat]
  /\ UNCHANGED <<token, unexpired, owner>>

Heard(c, answer) ==
  [owner EXCEPT ![c].lost = @ \/ answer = "refused",
                ![c].uncertain = IF answer = "refused" THEN @ ELSE answer = "failed"]

Hear(c) ==
  /\ beat[c].answer \in {"renewed", "refused", "failed"}
  /\ IF owner[c].phase = "away"
       THEN UNCHANGED owner
       ELSE owner' = [Heard(c, beat[c].answer) EXCEPT
              ![c].warned = @ \/ (beat[c].after /\ owner[c].phase = "body")]
  /\ beat' = [beat EXCEPT ![c] =
       IF beat[c].answer = "refused" \/ owner[c].phase = "away" THEN NoBeat
       ELSE [answer |-> "waiting", after |-> FALSE]]
  /\ UNCHANGED <<token, unexpired>>

-----------------------------------------------------------------------------
\* The lease runs out between two renewals.  A worker's turn takes it when it
\* likes, and to the others looks like a token nobody holds.
RunsOut(c) ==
  /\ token = c /\ unexpired
  /\ unexpired' = FALSE
  /\ UNCHANGED <<token, owner, beat>>

WorkerTurn ==
  /\ unexpired => token = NoCaller
  /\ unexpired' = ~unexpired /\ token' = NoCaller
  /\ UNCHANGED <<owner, beat>>

Died(c) ==
  /\ owner[c].phase # "away"
  /\ owner' = [owner EXCEPT ![c] = NoOwner]
  /\ beat' = [beat EXCEPT ![c] = NoBeat]
  /\ UNCHANGED <<token, unexpired>>

LeaseNext ==
  \/ WorkerTurn
  \/ \E c \in Callers :
       \/ AskForLease(c) \/ Claim(c) \/ ClaimFails(c) \/ CancelTurn(c)
       \/ BodyFails(c) \/ BodyEnds(c) \/ ReadUncertain(c) \/ ReturnFenced(c) \/ Release(c)
       \/ Renew(c) \/ BeatEnds(c) \/ Hear(c) \/ RunsOut(c) \/ Died(c)

LeaseSpec == LeaseInit /\ [][LeaseNext]_leaseVars

-----------------------------------------------------------------------------
\* A renewal that failed leaves the ownership uncertain until the fence of the
\* database verifies it: a caller whose heartbeat has heard anything at all
\* since the lease was lost does not report success.
LostLeaseIsReported ==
  \A c \in Callers : owner[c].reported => ~owner[c].warned
=============================================================================
