---------------------------- MODULE ApprovalProofs -----------------------------
(*****************************************************************************)
(* What the approval handshake keeps, for any number of API calls.           *)
(*****************************************************************************)
EXTENDS Approval, TLAPS

\* The order of things: calls come after the row, a set event has a decision
\* beside it, and whoever got past the wait has one.
Flow ==
    /\ handler = "start" => event = "absent" /\ \A r \in Resolvers : call[r] = "idle"
    /\ event = "set" => told # None
    /\ handler \in {"decided", "writing", "done"} => decision # None

\* What the manager and the row can only have from somebody who asked for it:
\* told holds the verdict of a notified call, only calls that passed the check
\* notify, and a final row comes from a committed call or from the handler.
Provenance ==
    /\ notified \subseteq Voters
    /\ told \in Verdicts => \E r \in notified : verdict[r] = told
    /\ decision \in Verdicts => \E r \in notified : verdict[r] = decision
    /\ row \in Verdicts =>
          \/ handler = "done" /\ row = decision
          \/ \E r \in Voters : verdict[r] = row
    /\ row = "timeout" => handler = "done" /\ decision = "timeout"
    /\ handler = "done" => row # "pending"

IInv == ApprovalTypeOK /\ Flow /\ Provenance

\* Every step keeps the type and the order.
LEMMA TypeStep == ApprovalTypeOK /\ Flow /\ [ApprovalNext]_approvalVars => (ApprovalTypeOK /\ Flow)'
<1> SUFFICES ASSUME ApprovalTypeOK, Flow, [ApprovalNext]_approvalVars PROVE (ApprovalTypeOK /\ Flow)'
  OBVIOUS
<1> USE DEF ApprovalTypeOK, Flow, Statuses, Verdicts, None
<1>1. CASE Create
  BY <1>1 DEF Create
<1>2. CASE Register
  BY <1>2 DEF Register
<1>3. CASE Wake
  BY <1>3 DEF Wake, Return
<1>4. CASE Expire
  BY <1>4 DEF Expire, Return
<1>5. CASE Look
  BY <1>5 DEF Look
<1>6. CASE Record
  BY <1>6 DEF Record
<1>7. CASE Lose
  BY <1>7 DEF Lose
<1>8. ASSUME NEW r \in Resolvers, ResolverStep(r) PROVE (ApprovalTypeOK /\ Flow)'
  <2>1. CASE Check(r)
    BY <2>1 DEF Check
  <2>2. CASE Flush(r)
    BY <2>2 DEF Flush
  <2>3. CASE Notify(r)
    BY <2>3 DEF Notify
  <2>4. CASE Commit(r)
    BY <2>4 DEF Commit
  <2>5. CASE Rollback(r)
    BY <2>5 DEF Rollback
  <2> QED
    BY <1>8, <2>1, <2>2, <2>3, <2>4, <2>5 DEF ResolverStep
<1>9. CASE UNCHANGED approvalVars
  BY <1>9 DEF approvalVars
<1> QED
  BY <1>1, <1>2, <1>3, <1>4, <1>5, <1>6, <1>7, <1>8, <1>9 DEF ApprovalNext, HandlerStep

\* Every step keeps the invariant: a verdict travels from a call that passed
\* the check to told, decision and row, and is made up nowhere.
LEMMA Inductive == IInv /\ [ApprovalNext]_approvalVars => IInv'
<1> SUFFICES ASSUME IInv, [ApprovalNext]_approvalVars PROVE IInv'
  OBVIOUS
<1>0. ApprovalTypeOK' /\ Flow'
  BY TypeStep DEF IInv
<1> USE DEF IInv, Provenance, Voters
<1>h. ASSUME HandlerStep \/ Lose PROVE Provenance'
  <2>1. CASE Create
    BY <2>1 DEF Create, ApprovalTypeOK, Verdicts
  <2>2. CASE Register
    BY <2>2 DEF Register
  <2>3. CASE Wake
    BY <2>3 DEF Wake, Return, Verdicts, None, ApprovalTypeOK
  <2>4. CASE Expire
    BY <2>4 DEF Expire, Return, Verdicts, ApprovalTypeOK
  <2>5. CASE Look
    BY <2>5 DEF Look
  <2>6. CASE Record
    BY <2>6 DEF Record, ApprovalTypeOK, Verdicts, None
  <2>7. CASE Lose
    BY <2>7 DEF Lose
  <2> QED
    BY <1>h, <2>1, <2>2, <2>3, <2>4, <2>5, <2>6, <2>7 DEF HandlerStep
<1>r. ASSUME NEW r \in Resolvers, ResolverStep(r) PROVE Provenance'
  <2>1. CASE Check(r)
    BY <2>1 DEF Check, ApprovalTypeOK
  <2>2. CASE Flush(r)
    BY <2>2 DEF Flush, ApprovalTypeOK
  <2>3. CASE Notify(r)
    BY <2>3 DEF Notify, ApprovalTypeOK
  <2>4. CASE Commit(r)
    BY <2>4 DEF Commit, ApprovalTypeOK, Verdicts
  <2>5. CASE Rollback(r)
    BY <2>5 DEF Rollback, ApprovalTypeOK
  <2> QED
    BY <1>r, <2>1, <2>2, <2>3, <2>4, <2>5 DEF ResolverStep
<1>u. ASSUME UNCHANGED approvalVars PROVE Provenance'
  <2>1. UNCHANGED <<handler, decision, row, event, told, verdict, notified>> /\ Voters' = Voters
    BY <1>u DEF approvalVars
  <2> QED
    BY <2>1
<1> QED
  BY <1>0, <1>h, <1>r, <1>u DEF ApprovalNext

\* Before the row exists nobody has asked for anything.
LEMMA Initially == ApprovalInit => IInv
BY DEF ApprovalInit, IInv, ApprovalTypeOK, Flow, Provenance, Voters, Statuses, Verdicts, None

\* The invariant holds throughout.
LEMMA Always == ApprovalSpec => []IInv
BY Initially, Inductive, PTL DEF ApprovalSpec

\* Types: request_approval, the manager's two dictionaries and the row.
THEOREM ApprovalTypeCorrect == ApprovalSpec => []ApprovalTypeOK
<1>1. IInv => ApprovalTypeOK
  BY DEF IInv
<1> QED
  BY <1>1, Always, PTL

\* A run is only told what a resolver that passed the check has asked for.
THEOREM DecisionsMeant == ApprovalSpec => []DecisionMeant
<1>1. IInv => DecisionMeant
  BY DEF IInv, Provenance, DecisionMeant
<1> QED
  BY <1>1, Always, PTL

\* A handler that has returned leaves no pending row behind.
THEOREM RequestsSettle == ApprovalSpec => []Settled
<1>1. IInv => Settled
  BY DEF IInv, Provenance, Settled
<1> QED
  BY <1>1, Always, PTL

\* If one API call only passed the check, the row ends as the run was told.
THEOREM SoleVotersHeeded == ApprovalSpec => []SoleVoterHeeded
<1>1. IInv => SoleVoterHeeded
  <2> SUFFICES ASSUME IInv, NEW r \in Resolvers, handler = "done",
                      decision \in Verdicts, Voters = {r}
               PROVE  row = decision
    BY DEF SoleVoterHeeded
  <2>1. verdict[r] = decision
    BY DEF IInv, Provenance
  <2>2. row \in Verdicts
    BY DEF IInv, Provenance, ApprovalTypeOK, Statuses, Verdicts, None
  <2> QED
    BY <2>1, <2>2 DEF IInv, Provenance
<1> QED
  BY <1>1, Always, PTL
=============================================================================
