------------------------ MODULE ReadAfterWriteContract ------------------------
(***************************************************************************)
(* What the read-after-write test promises its harness: the network        *)
(* output stays unwritten until, in one step, it receives the network      *)
(* input unchanged (every round copies it, and the DPU writes only its own *)
(* outputs); and that step is eventually taken.                            *)
(***************************************************************************)
CONSTANT Uninit

VARIABLE out  \* the network output buffer, granule -> token

Unwritten == \A j \in DOMAIN out : out[j] = Uninit

(* The test's whole observable effect.                                     *)
DeliverInput ==
  /\ Unwritten
  /\ out' = [j \in DOMAIN out |-> <<"NetIn", j>>]

ContractInit == Unwritten

ContractSpec == ContractInit /\ [][DeliverInput]_out /\ WF_out(DeliverInput)

====
