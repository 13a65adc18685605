-------------------------------- MODULE EthTx --------------------------------
(***************************************************************************)
(* The way of a frame that is sent: low_level_output copies it into the    *)
(* buffer of the descriptor DMATxDescToSet points to, ETH_Tx_Packet gives  *)
(* that descriptor to the DMA, which sends the descriptors in turn.        *)
(*                                                                         *)
(* Nothing locks the ring.  tcpip_thread has the higher priority and       *)
(* preempts network_task, whose calls of tcp_write, tcp_output, tcp_close  *)
(* and dhcp_* end in the same function, between any two steps.             *)
(***************************************************************************)
EXTENDS Integers, Sequences, Functions

CONSTANTS ETH_TXBUFNB,  \* descriptors of the ring
          MaxFrames     \* bound: frames that are sent

VARIABLES own, buffer,      \* descriptors: the OWN bit, the frame in the buffer
          DMATxDescToSet,   \* the descriptor for the next frame
          dmaNext,          \* the descriptor the DMA sends next
          tbus,             \* it found none: suspended until it is resumed
          sent,             \* the frames on the wire
          result,           \* what low_level_output returned for each frame
          pc, frame         \* where network_task is in low_level_output

vars == <<own, buffer, DMATxDescToSet, dmaNext, tbus, sent, result, pc, frame>>

Desc == 0..(ETH_TXBUFNB - 1)
Frame == 1..MaxFrames
After(d) == (d + 1) % ETH_TXBUFNB
New(f) == result[f] = "none" /\ f # frame /\ \A g \in 1..(f - 1) : result[g] # "none" \/ g = frame

(* low_level_output in tcpip_thread, which network_task cannot interrupt.  *)
(* The copy comes before the test of the OWN bit.                          *)
low_level_output(f) ==
    /\ New(f)
    /\ buffer' = [buffer EXCEPT ![DMATxDescToSet] = f]
    /\ IF own[DMATxDescToSet]
       THEN /\ result' = [result EXCEPT ![f] = "ERR_MEM"]
            /\ UNCHANGED <<own, tbus, DMATxDescToSet>>
       ELSE /\ result' = [result EXCEPT ![f] = "ERR_OK"]
            /\ own' = [own EXCEPT ![DMATxDescToSet] = TRUE]
            /\ tbus' = FALSE
            /\ DMATxDescToSet' = After(DMATxDescToSet)
    /\ UNCHANGED <<dmaNext, sent, pc, frame>>

(* The same in network_task, step by step: each reads the global again.    *)
Copy(f) ==
    /\ pc = "idle" /\ New(f)
    /\ frame' = f
    /\ buffer' = [buffer EXCEPT ![DMATxDescToSet] = f]
    /\ pc' = "check"
    /\ UNCHANGED <<own, DMATxDescToSet, dmaNext, tbus, sent, result>>

Finish(res) == result' = [result EXCEPT ![frame] = res] /\ frame' = 0 /\ pc' = "idle"

Check ==
    /\ pc = "check"
    /\ IF own[DMATxDescToSet] THEN Finish("ERR_MEM")
       ELSE pc' = "give" /\ UNCHANGED <<result, frame>>
    /\ UNCHANGED <<own, buffer, DMATxDescToSet, dmaNext, tbus, sent>>

Give ==
    /\ pc = "give"
    /\ own' = [own EXCEPT ![DMATxDescToSet] = TRUE]
    /\ tbus' = FALSE
    /\ pc' = "advance"
    /\ UNCHANGED <<buffer, DMATxDescToSet, dmaNext, sent, result, frame>>

Advance ==
    /\ pc = "advance"
    /\ DMATxDescToSet' = After(DMATxDescToSet)
    /\ Finish("ERR_OK")
    /\ UNCHANGED <<own, buffer, dmaNext, tbus, sent>>

(* The DMA. *)
DmaSends ==
    /\ ~tbus /\ own[dmaNext]
    /\ sent' = Append(sent, buffer[dmaNext])
    /\ own' = [own EXCEPT ![dmaNext] = FALSE]
    /\ dmaNext' = After(dmaNext)
    /\ UNCHANGED <<buffer, DMATxDescToSet, tbus, result, pc, frame>>

DmaSuspends ==
    /\ ~tbus /\ ~own[dmaNext]
    /\ tbus' = TRUE
    /\ UNCHANGED <<own, buffer, DMATxDescToSet, dmaNext, sent, result, pc, frame>>

(* As low_level_init leaves the ring. *)
Init ==
    /\ own = [d \in Desc |-> FALSE] /\ buffer = [d \in Desc |-> 0]
    /\ DMATxDescToSet = 0 /\ dmaNext = 0 /\ tbus = FALSE
    /\ sent = <<>> /\ result = [f \in Frame |-> "none"]
    /\ pc = "idle" /\ frame = 0

Next ==
    \/ \E f \in Frame : low_level_output(f) \/ Copy(f)
    \/ Check \/ Give \/ Advance
    \/ DmaSends \/ DmaSuspends

Spec == Init /\ [][Next]_vars

-----------------------------------------------------------------------------

(* A frame for which low_level_output has returned ERR_OK has been sent or *)
(* waits in a descriptor of the DMA, as it was given.                      *)
SendSuccess == \A f \in Frame :
    result[f] = "ERR_OK" =>
      f \in Range(sent) \/ \E d \in Desc : own[d] /\ buffer[d] = f
=============================================================================
