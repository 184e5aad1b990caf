---------------------------- MODULE MCTenantApi ----------------------------
(* Two admin keys, of which one is presented, and requests without one.    *)
EXTENDS TenantApi

CONSTANTS Key1, Key2

MCAdminKeys == << [label |-> "ops", key |-> [id |-> Key1, length |-> 32]],
                  [label |-> "ci", key |-> [id |-> Key2, length |-> 40]] >>
MCPresented == {None, [scheme |-> "Bearer", key |-> [id |-> Key2, length |-> 40]]}

\* The cap is reached with transactions, and two handshakes meet without.
MCDeployments == {[transactional |-> TRUE, capacity |-> 1],
                  [transactional |-> FALSE, capacity |-> 2]}
=============================================================================
