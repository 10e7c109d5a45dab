------------------------------ MODULE AclChannel ------------------------------
(* write_acl_data of ControllerAdapter and the AclChannel behind it, in       *)
(* examples/embassy/src/transport.rs.  Writers take turns through a mutex;    *)
(* the one that holds it polls the channel's flag, yielding between polls,    *)
(* then fills HCI_ACL_DATA_BUFFER and sets the flag.  The writer of a packet  *)
(* of more than 251 bytes gets an error, and the flag is set all the same.    *)
EXTENDS SequencesExt

CONSTANTS
  Writers,       \* callers of write_acl_data
  Nobody,
  PacketIds      \* names for the packets in hand: more than there are writers

ASSUME AclAssumption == Nobody \notin Writers /\ Nobody \notin PacketIds

VARIABLES
  aclPc,       \* where each writer is suspended
  packet,      \* the packet it writes
  holder,      \* the writer that holds hw_ipcc_hci_acl_data_channel
  aclFlag,     \* TRUE while CPU2 owns HCI_ACL_DATA_BUFFER
  aclBuffer,   \* what HCI_ACL_DATA_BUFFER holds
  unread       \* packets whose writer was told Ok and that CPU2 has not read
               \* whole yet, in the order they were reported

writerVars == <<aclPc, packet, holder>>
aclVars == <<writerVars, aclFlag, aclBuffer, unread>>

NoPacket == [id |-> Nobody, fits |-> TRUE]

AclInit ==
  /\ aclPc = [w \in Writers |-> "idle"]
  /\ packet = [w \in Writers |-> NoPacket]
  /\ holder = Nobody
  /\ aclFlag = FALSE
  /\ aclBuffer = NoPacket
  /\ unread = <<>>

FreePacketIds ==
  PacketIds \ {p.id : p \in {packet[w] : w \in {v \in Writers : aclPc[v] # "idle"}}
                            \cup {aclBuffer} \cup ToSet(unread)}

WriteAclData(w, fits) ==
  /\ aclPc[w] = "idle"
  /\ FreePacketIds # {}
  /\ packet' = [packet EXCEPT ![w] =
                   [id |-> CHOOSE id \in FreePacketIds : TRUE, fits |-> fits]]
  /\ aclPc' = [aclPc EXCEPT ![w] = "lock"]
  /\ UNCHANGED <<holder, aclFlag, aclBuffer, unread>>

(* The closure of `send`, the flag, and the end of the call.                  *)
HandOver(w) ==
  /\ aclBuffer' = packet[w]
  /\ aclFlag' = TRUE
  /\ aclPc' = [aclPc EXCEPT ![w] = "idle"]
  /\ holder' = Nobody
  /\ unread' = IF packet[w].fits THEN Append(unread, packet[w]) ELSE unread
  /\ UNCHANGED packet

(* Mutant of LockAndSend: the first poll does not look at the flag.           *)
LockAndSendUnchecked(w) ==
  /\ aclPc[w] = "lock"
  /\ holder = Nobody
  /\ HandOver(w)

(* The mutex is free and so is the channel: one poll does it all.             *)
LockAndSend(w) ==
  /\ aclPc[w] = "lock"
  /\ holder = Nobody
  /\ ~aclFlag
  /\ HandOver(w)

(* The mutex is free and CPU2 has not read the previous packet.               *)
LockAndYield(w) ==
  /\ aclPc[w] = "lock"
  /\ holder = Nobody
  /\ aclFlag
  /\ holder' = w
  /\ aclPc' = [aclPc EXCEPT ![w] = "poll"]
  /\ UNCHANGED <<packet, aclFlag, aclBuffer, unread>>

PollAndSend(w) ==
  /\ aclPc[w] = "poll"
  /\ ~aclFlag
  /\ HandOver(w)

(* Mutant of CancelWrite: the mutex is not released.                          *)
CancelWriteLocked(w) ==
  /\ aclPc[w] # "idle"
  /\ aclPc' = [aclPc EXCEPT ![w] = "idle"]
  /\ UNCHANGED <<packet, holder, aclFlag, aclBuffer, unread>>

(* The caller drops the future of write_acl_data.                             *)
CancelWrite(w) ==
  /\ aclPc[w] # "idle"
  /\ aclPc' = [aclPc EXCEPT ![w] = "idle"]
  /\ holder' = IF holder = w THEN Nobody ELSE holder
  /\ UNCHANGED <<packet, aclFlag, aclBuffer, unread>>

(* CPU2, external, reads the buffer and clears the flag.  A packet too long   *)
(* for it is cut short there; any other is the first that was due.            *)
Cpu2TakePacket ==
  /\ aclFlag
  /\ unread' = IF aclBuffer.fits THEN Tail(unread) ELSE unread
  /\ aclFlag' = FALSE
  /\ UNCHANGED <<writerVars, aclBuffer>>

WriterStep(w) == LockAndSend(w) \/ LockAndYield(w) \/ PollAndSend(w)

AclNext ==
  \/ \E w \in Writers :
       \/ \E fits \in BOOLEAN : WriteAclData(w, fits)
       \/ LockAndSend(w)
       \/ LockAndYield(w)
       \/ PollAndSend(w)
       \/ CancelWrite(w)
  \/ Cpu2TakePacket

AclSpec == AclInit /\ [][AclNext]_aclVars

-------------------------------------------------------------------------------
(* Properties.                                                                *)

(* "Wait for CPU2 to read the previous packet": CPU2 reads every packet whose *)
(* writer was told Ok once, whole and in that order, with writers dropped and *)
(* packets too long in between.  What it is due is never more than the packet *)
(* in the buffer, and that packet while the flag is up: none is overwritten,  *)
(* or read before the writer is told.                                         *)
AclDelivery == unread = IF aclFlag /\ aclBuffer.fits THEN <<aclBuffer>> ELSE <<>>
===============================================================================
