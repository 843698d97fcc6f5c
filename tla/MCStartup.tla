---------------------------- MODULE MCStartup ----------------------------
(* Two processes, one user profile and the demo's, two connection strings, *)
(* one of them with several hosts and a certificate to trust.              *)
EXTENDS Startup

Plainly == [form |-> "url", parses |-> TRUE, sslmode |-> "disable",
            root |-> "none", cert |-> "none", key |-> "none"]

MCUriSpec ==
    [u \in Uris |->
        CASE u = "u1" -> Plainly
          [] OTHER    -> [Plainly EXCEPT !.form = "hosts", !.sslmode = "prefer", !.root = "good"]]

MCTomls == {[is |-> "absent", theme |-> "unset", primary |-> "null"],
            [is |-> "whole", theme |-> "toml", primary |-> "u1"]}

Symmetry == Permutations(Procs)
=============================================================================
