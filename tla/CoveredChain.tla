---------------------------- MODULE CoveredChain ----------------------------
(***************************************************************************)
(* What the warehouse promises its readers, whatever the node, the process *)
(* and the operator do: a run of consecutive heights that holds one chain, *)
(* each block with logs of that very block.  It is only ever published     *)
(* whole, extended on top by children of its last block, or cut back to a  *)
(* block it already holds; a block in it never changes.                    *)
(***************************************************************************)
EXTENDS Chain

VARIABLE served  \* height -> [block, logs: the blocks its log rows come from]

Entry == [block : Block, logs : SUBSET Block]

\* The heights of m are from..to, and m is one chain there.
IsRun(m, from, to) ==
    /\ DOMAIN m = from..to
    /\ \A n \in from..to :
          /\ m[n] \in Entry
          /\ Height(m[n].block) = n
          /\ m[n].logs \subseteq {m[n].block}
          /\ n > from => Parent(m[n].block) = m[n - 1].block

Init ==
    \/ served = [n \in {} |-> NoHash]
    \/ \E from, to \in Heights : from <= to /\ IsRun(served, from, to)

\* The first blocks, or more blocks on top of those served.
Extend ==
    \E from, to \in Heights :
        /\ from <= to
        /\ IsRun(served', from, to)
        /\ DOMAIN served \subseteq from..to
        /\ \A n \in DOMAIN served : served'[n] = served[n]
        /\ served # [n \in {} |-> NoHash] => from \in DOMAIN served

\* Everything above a served block is withdrawn.
CutBack ==
    \E to \in DOMAIN served :
        served' = [n \in {m \in DOMAIN served : m <= to} |-> served[n]]

Next == Extend \/ CutBack
Spec == Init /\ [][Next]_served
=============================================================================
