-------------------------- MODULE WorkflowLifecycle --------------------------
(***************************************************************************)
(* What the workflow runtime promises about one persisted row when calls   *)
(* on the workflow do not overlap (docs/architecture/                      *)
(* autonomous-workflows.md): phases are passed in order and one at a time, *)
(* an approval phase is passed only after an approval for it, and terminal *)
(* rows are final.                                                         *)
(***************************************************************************)
EXTENDS Naturals

CONSTANTS Workflows, NumPhases, ApprovalPhases

VARIABLE life  \* life[w]: status, phase index and phases approved so far

\* Where a call leaves a running row: ended, waiting at a checkpoint, or
\* running, because the next operation started or the last save failed.
Settle(w, l) ==
  \/ /\ l.phase = NumPhases
     /\ life' = [life EXCEPT ![w] = [l EXCEPT !.status = "completed"]]
  \/ /\ l.phase < NumPhases
     /\ life' = [life EXCEPT ![w] = [l EXCEPT !.status = "failed"]]
  \/ /\ l.phase \in ApprovalPhases
     /\ life' = [life EXCEPT ![w] = [l EXCEPT !.status = "waiting"]]
  \/ life' = [life EXCEPT ![w] = l]

Init == life = [w \in Workflows |-> [status |-> "absent", phase |-> 0, approved |-> {}]]

Start(w) ==
  /\ life[w].status = "absent"
  /\ life' = [life EXCEPT ![w].status = "pending"]

\* A call of run() on a workflow that is pending or was interrupted.
Begin(w) ==
  /\ life[w].status \in {"pending", "running"}
  /\ Settle(w, [life[w] EXCEPT !.status = "running"])

Approve(w) ==
  /\ life[w].status = "waiting"
  /\ Settle(w, [status |-> "running", phase |-> life[w].phase,
                approved |-> life[w].approved \cup {life[w].phase}])

\* One phase is done, and approved where it must be.
Pass(w) ==
  /\ life[w].status = "running"
  /\ life[w].phase < NumPhases
  /\ life[w].phase \in ApprovalPhases => life[w].phase \in life[w].approved
  /\ Settle(w, [life[w] EXCEPT !.phase = @ + 1])

Next == \E w \in Workflows : Start(w) \/ Begin(w) \/ Approve(w) \/ Pass(w)

Spec == Init /\ [][Next]_life
=============================================================================
