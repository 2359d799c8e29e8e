-------------------------- MODULE MCPlategaPayments --------------------------
(* Small instances of PlategaPayments for TLC. *)
EXTENDS PlategaPayments, TLC

CONSTANTS web1, web2

\* Nothing fails; alerts are lost; the panel or the store fails in the middle of
\* a task; threads die and the recovery takes over.
MCPaymentEnvironment == {{}, {"telegram"}, {"panel"}, {"crash"}}

MCDisturbed == faults \cap {"panel", "crash"} # {}

\* What guards or PaidIsHandled read. Where a task or a thread may fail, states
\* that only the other histories tell apart are taken as one: the two properties
\* that read those claim nothing there.
MCRead ==
  <<status, stale, profile, collided, worker, recoverer, faults, attempts, gateway, event,
    recent, task, confirmed, resolved, tasks, alerted, [o \in Order |-> deliveries[o] = 0]>>
MCView == IF MCDisturbed THEN MCRead ELSE allVars

\* There no more than two tasks at once, so that the third comes after one of them.
MCTwoAtOnce == MCDisturbed => \E w \in Worker : task[w] = NoTask
MCPaymentSymmetry == Permutations({web1, web2})
=============================================================================
