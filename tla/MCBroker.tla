-------------------------------- MODULE MCBroker --------------------------------
(* Instances of Broker for TLC: one repair with an agent's turn. *)
EXTENDS Broker, TLC

CONSTANTS r, s, x, y, c, d, v, m

Ask(kind, p) == [repair |-> r, kind |-> kind, param |-> p]
Asked == {Ask("verify", x), Ask("cutover", x), Ask("cutover", y),
          Ask("restart_service", x)}

Keys == r :> {"plain"}
Symmetry == Permutations(Callers)

================================================================================
