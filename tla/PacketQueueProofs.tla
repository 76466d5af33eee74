------------------------- MODULE PacketQueueProofs -------------------------
(***************************************************************************)
(* Proofs about the packet queue, for any number of producers, consumers   *)
(* and packets.  TypeOK alone is not inductive (put_link needs to know     *)
(* that the thread really holds a packet), so everything is proved from    *)
(* one inductive invariant, IInv.  Two more are inductive beside it:       *)
(* WakeInv, the balance of packets and wakeups, and BytesInv, the value of *)
(* size, which needs an induction over the list.                           *)
(***************************************************************************)
EXTENDS PacketQueue, TLAPS, FiniteSetTheorems, SetInduction

(* A get that reached its look at the list was called before quit: quit is *)
(* never reset, and the test of line 175 comes before line 180.            *)
LateInv ==
  /\ \A c \in Consumers : late[c] => quit
  /\ \A c \in Consumers : pc[c] = "get_take" => ~late[c]

(* nb_packets is exact up to the one update the holder of the mutex owes.  *)
NbInv ==
  nb_packets = Len(chain) + (CASE mutex = NULL -> 0
                               [] mutex # NULL /\ pc[mutex] = "put_count" -> -1
                               [] mutex # NULL /\ pc[mutex] = "get_count" -> 1
                               [] OTHER -> 0)

(* Producers and consumers are in the states of their own function.        *)
PcInv ==
  /\ \A t \in Producers : pc[t] \in {"idle"} \cup PutStates
  /\ \A c \in Consumers : pc[c] \in {"idle"} \cup GetStates

IInv == TypeOK /\ PcInv /\ MutexInv /\ ListWellFormed /\ Owned /\ LateInv
        /\ NbInv

(* A sequence that is not empty has a first element. *)
LEMMA NonEmptyLen ==
  ASSUME NEW S, NEW s \in Seq(S), s # <<>>
  PROVE  Len(s) \in Nat /\ Len(s) >= 1 /\ (Len(s) = 1 \/ Len(s) > 1)
<1>1. Len(s) \in Nat /\ Len(s) >= 1
  OBVIOUS
<1>2. \A n \in Nat : n >= 1 => n = 1 \/ n > 1
  OBVIOUS
<1> QED BY <1>1, <1>2

(* The invariant holds at the start. *)
LEMMA InitIInv == Init => IInv
<1> SUFFICES ASSUME Init PROVE IInv
  OBVIOUS
<1> USE DEF Init, packet_queue_init
<1>1. next \in [Packets -> Packets \cup {NULL}]
  OBVIOUS
<1>2. pc \in [Threads -> {"idle"} \cup PutStates \cup GetStates]
  OBVIOUS
<1>3. pkt \in [Threads -> Packets \cup {NULL}]
  OBVIOUS
<1>4. ret \in [Consumers -> {-1, 0, 1}]
  OBVIOUS
<1>5. block \in [Consumers -> BOOLEAN] /\ late \in [Consumers -> BOOLEAN]
  OBVIOUS
<1>6. chain \in Seq(Packets) /\ nb_packets \in Nat /\ size \in Int
  OBVIOUS
<1>7. TypeOK
  BY <1>1, <1>2, <1>3, <1>4, <1>5, <1>6 DEF TypeOK
<1>8. PcInv
  BY DEF PcInv, Threads
<1>9. MutexInv
  BY QueueAssumption DEF MutexInv, Critical
<1>10. ListWellFormed
  BY DEF ListWellFormed
<1>11. Owned
  BY DEF Owned, Unlinked, Threads
<1>12. LateInv
  BY DEF LateInv, Threads
<1>13. NbInv
  BY DEF NbInv
<1> QED BY <1>7, <1>8, <1>9, <1>10, <1>11, <1>12, <1>13 DEF IInv

(* Every step keeps the shared state well typed. *)
LEMMA StepTypeOK == IInv /\ [Next]_vars => TypeOK'
<1> SUFFICES ASSUME IInv, [Next]_vars PROVE TypeOK'
  OBVIOUS
<1> USE QueueAssumption DEF Threads, PutStates, GetStates, listVars,
        countVars, callVars, Goto, IInv, TypeOK, Owned
<1>1. ASSUME NEW t \in Producers, PutCall(t) PROVE TypeOK'
  BY <1>1 DEF PutCall
<1>2. ASSUME NEW t \in Producers, PutFails(t) PROVE TypeOK'
  BY <1>2 DEF PutFails
<1>3. ASSUME NEW t \in Producers, PutLock(t) PROVE TypeOK'
  BY <1>3 DEF PutLock
<1>4. ASSUME NEW t \in Producers, PutLink(t) PROVE TypeOK'
  <2>1. pkt[t] \in Packets
    BY <1>4 DEF PutLink
  <2>2. chain' \in Seq(Packets)
    BY <1>4, <2>1 DEF PutLink
  <2>3. CASE last_pkt = NULL
    BY <1>4, <2>1, <2>2, <2>3 DEF PutLink
  <2>4. CASE last_pkt # NULL
    <3>1. next' \in [Packets -> Packets \cup {NULL}]
      BY <1>4, <2>1, <2>4 DEF PutLink
    <3> QED BY <1>4, <2>1, <2>2, <2>4, <3>1 DEF PutLink
  <2> QED BY <2>3, <2>4
<1>5. ASSUME NEW t \in Producers, PutCount(t) PROVE TypeOK'
  BY <1>5 DEF PutCount
<1>6. ASSUME NEW t \in Producers, PutSignal(t) PROVE TypeOK'
  <2>1. pc' \in [Threads -> {"idle"} \cup PutStates \cup GetStates]
    <3>1. CASE Waiters = {} /\ Goto(t, "put_unlock")
      BY <3>1
    <3>2. ASSUME NEW c \in Waiters,
                 pc' = [pc EXCEPT ![t] = "put_unlock", ![c] = "get_lock"]
          PROVE  pc' \in [Threads -> {"idle"} \cup PutStates \cup GetStates]
      BY <3>2
    <3> QED BY <1>6, <3>1, <3>2 DEF PutSignal
  <2> QED BY <1>6, <2>1 DEF PutSignal
<1>7. ASSUME NEW t \in Producers, PutUnlock(t) PROVE TypeOK'
  BY <1>7 DEF PutUnlock
<1>8. ASSUME NEW c \in Consumers, GetCall(c) PROVE TypeOK'
  BY <1>8 DEF GetCall
<1>9. ASSUME NEW c \in Consumers, GetLock(c) PROVE TypeOK'
  BY <1>9 DEF GetLock
<1>10. ASSUME NEW c \in Consumers, GetQuit(c) PROVE TypeOK'
  BY <1>10 DEF GetQuit
<1>11. ASSUME NEW c \in Consumers, GetTake(c) PROVE TypeOK'
  <2>1. chain # <<>> /\ first_pkt \in Packets
    BY <1>11 DEF GetTake, ListWellFormed
  <2>2. chain' \in Seq(Packets)
    BY <1>11, <2>1 DEF GetTake
  <2> QED BY <1>11, <2>1, <2>2 DEF GetTake
<1>12. ASSUME NEW c \in Consumers, GetCount(c) PROVE TypeOK'
  <2>1. mutex = c /\ c # NULL /\ pc[c] = "get_count"
    BY <1>12 DEF GetCount, MutexInv, Critical
  <2>2. nb_packets = Len(chain) + 1
    BY <2>1 DEF NbInv
  <2>3. nb_packets' \in Nat
    BY <1>12, <2>2 DEF GetCount
  <2> QED BY <1>12, <2>3 DEF GetCount
<1>13. ASSUME NEW c \in Consumers, GetEmpty(c) PROVE TypeOK'
  BY <1>13 DEF GetEmpty
<1>14. ASSUME NEW c \in Consumers, GetWait(c) PROVE TypeOK'
  BY <1>14 DEF GetWait
<1>15. ASSUME NEW c \in Consumers, SpuriousWakeup(c) PROVE TypeOK'
  BY <1>15 DEF SpuriousWakeup
<1>16. ASSUME NEW c \in Consumers, GetUnlock(c) PROVE TypeOK'
  BY <1>16 DEF GetUnlock
<1>17. CASE SetQuit
  BY <1>17 DEF SetQuit
<1>18. CASE UNCHANGED vars
  BY <1>18 DEF vars
<1> QED
  BY <1>1, <1>2, <1>3, <1>4, <1>5, <1>6, <1>7, <1>8, <1>9, <1>10, <1>11,
     <1>12, <1>13, <1>14, <1>15, <1>16, <1>17, <1>18
  DEF Next, packet_queue_put, packet_queue_get

(* No step moves a thread into the other function. *)
LEMMA StepPcInv == IInv /\ [Next]_vars => PcInv'
<1> SUFFICES ASSUME IInv, [Next]_vars PROVE PcInv'
  OBVIOUS
<1> USE QueueAssumption DEF Threads, PutStates, GetStates, listVars,
        countVars, callVars, Goto, IInv, TypeOK, PcInv
<1>1. ASSUME NEW t \in Producers, PutCall(t) PROVE PcInv'
  BY <1>1 DEF PutCall
<1>2. ASSUME NEW t \in Producers, PutFails(t) PROVE PcInv'
  BY <1>2 DEF PutFails
<1>3. ASSUME NEW t \in Producers, PutLock(t) PROVE PcInv'
  BY <1>3 DEF PutLock
<1>4. ASSUME NEW t \in Producers, PutLink(t) PROVE PcInv'
  BY <1>4 DEF PutLink
<1>5. ASSUME NEW t \in Producers, PutCount(t) PROVE PcInv'
  BY <1>5 DEF PutCount
<1>6. ASSUME NEW t \in Producers, PutSignal(t) PROVE PcInv'
  BY <1>6 DEF PutSignal, Waiters
<1>7. ASSUME NEW t \in Producers, PutUnlock(t) PROVE PcInv'
  BY <1>7 DEF PutUnlock
<1>8. ASSUME NEW c \in Consumers, GetCall(c) PROVE PcInv'
  BY <1>8 DEF GetCall
<1>9. ASSUME NEW c \in Consumers, GetLock(c) PROVE PcInv'
  BY <1>9 DEF GetLock
<1>10. ASSUME NEW c \in Consumers, GetQuit(c) PROVE PcInv'
  BY <1>10 DEF GetQuit
<1>11. ASSUME NEW c \in Consumers, GetTake(c) PROVE PcInv'
  BY <1>11 DEF GetTake
<1>12. ASSUME NEW c \in Consumers, GetCount(c) PROVE PcInv'
  BY <1>12 DEF GetCount
<1>13. ASSUME NEW c \in Consumers, GetEmpty(c) PROVE PcInv'
  BY <1>13 DEF GetEmpty
<1>14. ASSUME NEW c \in Consumers, GetWait(c) PROVE PcInv'
  BY <1>14 DEF GetWait
<1>15. ASSUME NEW c \in Consumers, SpuriousWakeup(c) PROVE PcInv'
  BY <1>15 DEF SpuriousWakeup
<1>16. ASSUME NEW c \in Consumers, GetUnlock(c) PROVE PcInv'
  BY <1>16 DEF GetUnlock
<1>17. CASE SetQuit
  BY <1>17 DEF SetQuit
<1>18. CASE UNCHANGED vars
  BY <1>18 DEF vars
<1> QED
  BY <1>1, <1>2, <1>3, <1>4, <1>5, <1>6, <1>7, <1>8, <1>9, <1>10, <1>11,
     <1>12, <1>13, <1>14, <1>15, <1>16, <1>17, <1>18
  DEF Next, packet_queue_put, packet_queue_get

(* Every step keeps the mutex with the one thread in its critical section. *)
LEMMA StepMutexInv == IInv /\ [Next]_vars => MutexInv'
<1> SUFFICES ASSUME IInv, [Next]_vars PROVE MutexInv'
  OBVIOUS
<1> USE QueueAssumption DEF Threads, PutStates, GetStates, listVars,
        countVars, callVars, Goto, IInv,
        TypeOK, PcInv, MutexInv, Critical
<1>1. ASSUME NEW t \in Producers, PutCall(t) PROVE MutexInv'
  BY <1>1 DEF PutCall
<1>2. ASSUME NEW t \in Producers, PutFails(t) PROVE MutexInv'
  BY <1>2 DEF PutFails
<1>3. ASSUME NEW t \in Producers, PutLock(t) PROVE MutexInv'
  BY <1>3 DEF PutLock
<1>4. ASSUME NEW t \in Producers, PutLink(t) PROVE MutexInv'
  BY <1>4 DEF PutLink
<1>5. ASSUME NEW t \in Producers, PutCount(t) PROVE MutexInv'
  BY <1>5 DEF PutCount
<1>6. ASSUME NEW t \in Producers, PutSignal(t) PROVE MutexInv'
  BY <1>6 DEF PutSignal, Waiters
<1>7. ASSUME NEW t \in Producers, PutUnlock(t) PROVE MutexInv'
  BY <1>7 DEF PutUnlock
<1>8. ASSUME NEW c \in Consumers, GetCall(c) PROVE MutexInv'
  BY <1>8 DEF GetCall
<1>9. ASSUME NEW c \in Consumers, GetLock(c) PROVE MutexInv'
  BY <1>9 DEF GetLock
<1>10. ASSUME NEW c \in Consumers, GetQuit(c) PROVE MutexInv'
  BY <1>10 DEF GetQuit
<1>11. ASSUME NEW c \in Consumers, GetTake(c) PROVE MutexInv'
  BY <1>11 DEF GetTake
<1>12. ASSUME NEW c \in Consumers, GetCount(c) PROVE MutexInv'
  BY <1>12 DEF GetCount
<1>13. ASSUME NEW c \in Consumers, GetEmpty(c) PROVE MutexInv'
  BY <1>13 DEF GetEmpty
<1>14. ASSUME NEW c \in Consumers, GetWait(c) PROVE MutexInv'
  BY <1>14 DEF GetWait
<1>15. ASSUME NEW c \in Consumers, SpuriousWakeup(c) PROVE MutexInv'
  BY <1>15 DEF SpuriousWakeup
<1>16. ASSUME NEW c \in Consumers, GetUnlock(c) PROVE MutexInv'
  BY <1>16 DEF GetUnlock
<1>17. CASE SetQuit
  BY <1>17 DEF SetQuit
<1>18. CASE UNCHANGED vars
  BY <1>18 DEF vars
<1> QED
  BY <1>1, <1>2, <1>3, <1>4, <1>5, <1>6, <1>7, <1>8, <1>9, <1>10, <1>11,
     <1>12, <1>13, <1>14, <1>15, <1>16, <1>17, <1>18
  DEF Next, packet_queue_put, packet_queue_get

(* Every step keeps the list well formed. *)
LEMMA StepList == IInv /\ [Next]_vars => ListWellFormed'
<1> SUFFICES ASSUME IInv, [Next]_vars PROVE ListWellFormed'
  OBVIOUS
<1> USE QueueAssumption DEF Threads, PutStates, GetStates, listVars,
        countVars, callVars, Goto, IInv,
        TypeOK, Owned, Unlinked, ListWellFormed
<1>1. ASSUME NEW t \in Producers, PutCall(t) PROVE ListWellFormed'
  BY <1>1 DEF PutCall
<1>2. ASSUME NEW t \in Producers, PutFails(t) PROVE ListWellFormed'
  BY <1>2 DEF PutFails
<1>3. ASSUME NEW t \in Producers, PutLock(t) PROVE ListWellFormed'
  BY <1>3 DEF PutLock
<1>4. ASSUME NEW t \in Producers, PutLink(t) PROVE ListWellFormed'
  BY <1>4 DEF PutLink
<1>5. ASSUME NEW t \in Producers, PutCount(t) PROVE ListWellFormed'
  BY <1>5 DEF PutCount
<1>6. ASSUME NEW t \in Producers, PutSignal(t) PROVE ListWellFormed'
  BY <1>6 DEF PutSignal, Waiters
<1>7. ASSUME NEW t \in Producers, PutUnlock(t) PROVE ListWellFormed'
  BY <1>7 DEF PutUnlock
<1>8. ASSUME NEW c \in Consumers, GetCall(c) PROVE ListWellFormed'
  BY <1>8 DEF GetCall
<1>9. ASSUME NEW c \in Consumers, GetLock(c) PROVE ListWellFormed'
  BY <1>9 DEF GetLock
<1>10. ASSUME NEW c \in Consumers, GetQuit(c) PROVE ListWellFormed'
  BY <1>10 DEF GetQuit
<1>11. ASSUME NEW c \in Consumers, GetTake(c) PROVE ListWellFormed'
  <2>1. /\ chain # <<>>
        /\ chain' = Tail(chain)
        /\ first_pkt' = next[first_pkt]
        /\ last_pkt' = IF next[first_pkt] = NULL THEN NULL ELSE last_pkt
        /\ next' = next
        /\ freed' = freed
    BY <1>11 DEF GetTake
  <2>2. /\ Len(chain') = Len(chain) - 1
        /\ chain' \in Seq(Packets)
        /\ \A i \in 1 .. Len(chain') : chain'[i] = chain[i + 1]
    BY <2>1
  <2>3. CASE Len(chain) = 1
    BY <2>1, <2>2, <2>3
  <2>4. CASE Len(chain) > 1
    <3>1. first_pkt' = chain[2] /\ chain[2] \in Packets
      <4>1. chain \in Seq(Packets) /\ Len(chain) \in Nat
        OBVIOUS
      <4>2. chain[2] \in Packets
        BY ONLY <2>4, <4>1
      <4>3. 1 \in 1 .. Len(chain) - 1
        BY ONLY <2>4, <4>1
      <4>4. next[chain[1]] = chain[1 + 1]
        BY <4>3
      <4> QED BY <2>1, <4>2, <4>4
    <3>2. last_pkt' = chain[Len(chain)] /\ last_pkt' \in Packets
      BY <2>1, <2>4, <3>1
    <3>3. chain' # <<>> /\ chain'[1] = chain[2]
          /\ chain'[Len(chain')] = chain[Len(chain)]
      <4>1. Len(chain) \in Nat
        OBVIOUS
      <4> QED BY ONLY <2>2, <2>4, <4>1
    <3>4. \A i \in 1 .. Len(chain') - 1 : next'[chain'[i]] = chain'[i + 1]
      BY <2>1, <2>2
    <3>5. \A i, j \in 1 .. Len(chain') : chain'[i] = chain'[j] => i = j
      BY <2>1, <2>2
    <3>6. \A i \in 1 .. Len(chain') : chain'[i] \notin freed'
      BY <2>1, <2>2
    <3>7. next'[last_pkt'] = NULL
      BY <2>1, <3>2
    <3>8. first_pkt' # NULL /\ last_pkt' # NULL
      BY <3>1, <3>2
    <3>9. /\ chain' = <<>> <=> first_pkt' = NULL
          /\ chain' = <<>> <=> last_pkt' = NULL
      BY <3>3, <3>8
    <3>10. first_pkt' = chain'[1] /\ last_pkt' = chain'[Len(chain')]
      BY <3>1, <3>2, <3>3
    <3> QED BY <3>4, <3>5, <3>6, <3>7, <3>9, <3>10
  <2>5. Len(chain) = 1 \/ Len(chain) > 1
    <3>1. chain \in Seq(Packets)
      OBVIOUS
    <3>2. chain # <<>>
      BY <2>1
    <3> QED BY ONLY <3>1, <3>2, NonEmptyLen
  <2> QED BY <2>3, <2>4, <2>5
<1>12. ASSUME NEW c \in Consumers, GetCount(c) PROVE ListWellFormed'
  BY <1>12 DEF GetCount
<1>13. ASSUME NEW c \in Consumers, GetEmpty(c) PROVE ListWellFormed'
  BY <1>13 DEF GetEmpty
<1>14. ASSUME NEW c \in Consumers, GetWait(c) PROVE ListWellFormed'
  BY <1>14 DEF GetWait
<1>15. ASSUME NEW c \in Consumers, SpuriousWakeup(c) PROVE ListWellFormed'
  BY <1>15 DEF SpuriousWakeup
<1>16. ASSUME NEW c \in Consumers, GetUnlock(c) PROVE ListWellFormed'
  BY <1>16 DEF GetUnlock
<1>17. CASE SetQuit
  BY <1>17 DEF SetQuit
<1>18. CASE UNCHANGED vars
  BY <1>18 DEF vars
<1> QED
  BY <1>1, <1>2, <1>3, <1>4, <1>5, <1>6, <1>7, <1>8, <1>9, <1>10, <1>11,
     <1>12, <1>13, <1>14, <1>15, <1>16, <1>17, <1>18
  DEF Next, packet_queue_put, packet_queue_get

(* Every step keeps packets in one place. *)
LEMMA StepOwned == IInv /\ [Next]_vars => Owned'
<1> SUFFICES ASSUME IInv, [Next]_vars PROVE Owned'
  OBVIOUS
<1> USE QueueAssumption DEF Threads, PutStates, GetStates, listVars,
        countVars, callVars, Goto, IInv,
        TypeOK, PcInv, ListWellFormed, Owned, Unlinked
<1>1. ASSUME NEW t \in Producers, PutCall(t) PROVE Owned'
  BY <1>1 DEF PutCall
<1>2. ASSUME NEW t \in Producers, PutFails(t) PROVE Owned'
  BY <1>2 DEF PutFails
<1>3. ASSUME NEW t \in Producers, PutLock(t) PROVE Owned'
  BY <1>3 DEF PutLock
<1>4. ASSUME NEW t \in Producers, PutLink(t) PROVE Owned'
  BY <1>4 DEF PutLink
<1>5. ASSUME NEW t \in Producers, PutCount(t) PROVE Owned'
  BY <1>5 DEF PutCount
<1>6. ASSUME NEW t \in Producers, PutSignal(t) PROVE Owned'
  <2>1. CASE Waiters = {} /\ Goto(t, "put_unlock")
    BY <1>6, <2>1 DEF PutSignal
  <2>2. ASSUME NEW c \in Waiters,
               pc' = [pc EXCEPT ![t] = "put_unlock", ![c] = "get_lock"]
        PROVE  Owned'
    BY <1>6, <2>2 DEF PutSignal, Waiters
  <2> QED BY <1>6, <2>1, <2>2 DEF PutSignal
<1>7. ASSUME NEW t \in Producers, PutUnlock(t) PROVE Owned'
  BY <1>7 DEF PutUnlock
<1>8. ASSUME NEW c \in Consumers, GetCall(c) PROVE Owned'
  BY <1>8 DEF GetCall
<1>9. ASSUME NEW c \in Consumers, GetLock(c) PROVE Owned'
  BY <1>9 DEF GetLock
<1>10. ASSUME NEW c \in Consumers, GetQuit(c) PROVE Owned'
  BY <1>10 DEF GetQuit
<1>11. ASSUME NEW c \in Consumers, GetTake(c) PROVE Owned'
  BY <1>11 DEF GetTake
<1>12. ASSUME NEW c \in Consumers, GetCount(c) PROVE Owned'
  BY <1>12 DEF GetCount
<1>13. ASSUME NEW c \in Consumers, GetEmpty(c) PROVE Owned'
  BY <1>13 DEF GetEmpty
<1>14. ASSUME NEW c \in Consumers, GetWait(c) PROVE Owned'
  BY <1>14 DEF GetWait
<1>15. ASSUME NEW c \in Consumers, SpuriousWakeup(c) PROVE Owned'
  BY <1>15 DEF SpuriousWakeup
<1>16. ASSUME NEW c \in Consumers, GetUnlock(c) PROVE Owned'
  BY <1>16 DEF GetUnlock
<1>17. CASE SetQuit
  BY <1>17 DEF SetQuit
<1>18. CASE UNCHANGED vars
  BY <1>18 DEF vars
<1> QED
  BY <1>1, <1>2, <1>3, <1>4, <1>5, <1>6, <1>7, <1>8, <1>9, <1>10, <1>11,
     <1>12, <1>13, <1>14, <1>15, <1>16, <1>17, <1>18
  DEF Next, packet_queue_put, packet_queue_get

(* No step lets a late get reach the list. *)
LEMMA StepLate == IInv /\ [Next]_vars => LateInv'
<1> SUFFICES ASSUME IInv, [Next]_vars PROVE LateInv'
  OBVIOUS
<1> USE QueueAssumption DEF Threads, PutStates, GetStates, listVars,
        countVars, callVars, Goto, IInv,
        TypeOK, PcInv, LateInv
<1>1. ASSUME NEW t \in Producers, PutCall(t) PROVE LateInv'
  BY <1>1 DEF PutCall
<1>2. ASSUME NEW t \in Producers, PutFails(t) PROVE LateInv'
  BY <1>2 DEF PutFails
<1>3. ASSUME NEW t \in Producers, PutLock(t) PROVE LateInv'
  BY <1>3 DEF PutLock
<1>4. ASSUME NEW t \in Producers, PutLink(t) PROVE LateInv'
  BY <1>4 DEF PutLink
<1>5. ASSUME NEW t \in Producers, PutCount(t) PROVE LateInv'
  BY <1>5 DEF PutCount
<1>6. ASSUME NEW t \in Producers, PutSignal(t) PROVE LateInv'
  BY <1>6 DEF PutSignal, Waiters
<1>7. ASSUME NEW t \in Producers, PutUnlock(t) PROVE LateInv'
  BY <1>7 DEF PutUnlock
<1>8. ASSUME NEW c \in Consumers, GetCall(c) PROVE LateInv'
  BY <1>8 DEF GetCall
<1>9. ASSUME NEW c \in Consumers, GetLock(c) PROVE LateInv'
  BY <1>9 DEF GetLock
<1>10. ASSUME NEW c \in Consumers, GetQuit(c) PROVE LateInv'
  BY <1>10 DEF GetQuit
<1>11. ASSUME NEW c \in Consumers, GetTake(c) PROVE LateInv'
  BY <1>11 DEF GetTake
<1>12. ASSUME NEW c \in Consumers, GetCount(c) PROVE LateInv'
  BY <1>12 DEF GetCount
<1>13. ASSUME NEW c \in Consumers, GetEmpty(c) PROVE LateInv'
  BY <1>13 DEF GetEmpty
<1>14. ASSUME NEW c \in Consumers, GetWait(c) PROVE LateInv'
  BY <1>14 DEF GetWait
<1>15. ASSUME NEW c \in Consumers, SpuriousWakeup(c) PROVE LateInv'
  BY <1>15 DEF SpuriousWakeup
<1>16. ASSUME NEW c \in Consumers, GetUnlock(c) PROVE LateInv'
  BY <1>16 DEF GetUnlock
<1>17. CASE SetQuit
  BY <1>17 DEF SetQuit
<1>18. CASE UNCHANGED vars
  BY <1>18 DEF vars
<1> QED
  BY <1>1, <1>2, <1>3, <1>4, <1>5, <1>6, <1>7, <1>8, <1>9, <1>10, <1>11,
     <1>12, <1>13, <1>14, <1>15, <1>16, <1>17, <1>18
  DEF Next, packet_queue_put, packet_queue_get

(* Every step keeps the node count in step with the list. *)
LEMMA StepNb == IInv /\ [Next]_vars => NbInv'
<1> SUFFICES ASSUME IInv, [Next]_vars PROVE NbInv'
  OBVIOUS
<1> USE QueueAssumption DEF Threads, PutStates, GetStates, listVars,
        countVars, callVars, Goto, IInv,
        TypeOK, PcInv, MutexInv, Critical, NbInv, ListWellFormed, Owned, Unlinked
<1>1. ASSUME NEW t \in Producers, PutCall(t) PROVE NbInv'
  BY <1>1 DEF PutCall
<1>2. ASSUME NEW t \in Producers, PutFails(t) PROVE NbInv'
  BY <1>2 DEF PutFails
<1>3. ASSUME NEW t \in Producers, PutLock(t) PROVE NbInv'
  BY <1>3 DEF PutLock
<1>4. ASSUME NEW t \in Producers, PutLink(t) PROVE NbInv'
  BY <1>4 DEF PutLink
<1>5. ASSUME NEW t \in Producers, PutCount(t) PROVE NbInv'
  BY <1>5 DEF PutCount
<1>6. ASSUME NEW t \in Producers, PutSignal(t) PROVE NbInv'
  BY <1>6 DEF PutSignal, Waiters
<1>7. ASSUME NEW t \in Producers, PutUnlock(t) PROVE NbInv'
  BY <1>7 DEF PutUnlock
<1>8. ASSUME NEW c \in Consumers, GetCall(c) PROVE NbInv'
  BY <1>8 DEF GetCall
<1>9. ASSUME NEW c \in Consumers, GetLock(c) PROVE NbInv'
  BY <1>9 DEF GetLock
<1>10. ASSUME NEW c \in Consumers, GetQuit(c) PROVE NbInv'
  BY <1>10 DEF GetQuit
<1>11. ASSUME NEW c \in Consumers, GetTake(c) PROVE NbInv'
  <2>1. chain # <<>> /\ chain \in Seq(Packets)
    BY <1>11 DEF GetTake
  <2>2. Len(Tail(chain)) = Len(chain) - 1 /\ Len(chain) \in Nat
    BY ONLY <2>1, NonEmptyLen
  <2>3. mutex = c /\ mutex' = c /\ c # NULL /\ pc[c] = "get_take"
        /\ pc'[c] = "get_count" /\ chain' = Tail(chain)
        /\ nb_packets' = nb_packets
    BY <1>11 DEF GetTake
  <2>4. nb_packets = Len(chain)
    BY <2>3
  <2> QED BY ONLY <2>2, <2>3, <2>4 DEF NbInv
<1>12. ASSUME NEW c \in Consumers, GetCount(c) PROVE NbInv'
  BY <1>12 DEF GetCount
<1>13. ASSUME NEW c \in Consumers, GetEmpty(c) PROVE NbInv'
  BY <1>13 DEF GetEmpty
<1>14. ASSUME NEW c \in Consumers, GetWait(c) PROVE NbInv'
  BY <1>14 DEF GetWait
<1>15. ASSUME NEW c \in Consumers, SpuriousWakeup(c) PROVE NbInv'
  BY <1>15 DEF SpuriousWakeup
<1>16. ASSUME NEW c \in Consumers, GetUnlock(c) PROVE NbInv'
  BY <1>16 DEF GetUnlock
<1>17. CASE SetQuit
  BY <1>17 DEF SetQuit
<1>18. CASE UNCHANGED vars
  BY <1>18 DEF vars
<1> QED
  BY <1>1, <1>2, <1>3, <1>4, <1>5, <1>6, <1>7, <1>8, <1>9, <1>10, <1>11,
     <1>12, <1>13, <1>14, <1>15, <1>16, <1>17, <1>18
  DEF Next, packet_queue_put, packet_queue_get

(* The invariant holds in every reachable state. *)
THEOREM Invariant == Spec => []IInv
<1>1. IInv /\ [Next]_vars => IInv'
  BY StepTypeOK, StepPcInv, StepMutexInv, StepList, StepOwned, StepLate,
     StepNb
  DEF IInv
<1> QED BY InitIInv, <1>1, PTL DEF Spec

(* Type correctness: the fields of PacketQueue, the node links and every   *)
(* thread's locals stay in their types whatever the interleaving.          *)
THEOREM TypeCorrect == Spec => []TypeOK
BY Invariant, PTL DEF IInv

(* Mutual exclusion: put and get touch the list and the counters only in   *)
(* the thread that holds q->mutex (lines 151-162 and 171-198).             *)
THEOREM MutualExclusion == Spec => []MutexInv
BY Invariant, PTL DEF IInv

(* Memory safety of the list: first_pkt, last_pkt and the next fields of   *)
(* lines 153-157 and 181-184 always spell out one finite, acyclic list of  *)
(* nodes that av_free (line 188) has not released.                         *)
THEOREM ListSafe == Spec => []ListWellFormed
BY Invariant, PTL DEF IInv

(* Ownership: a packet is in one place at a time, so none is linked twice, *)
(* delivered twice or freed while another thread holds it.                 *)
THEOREM OneOwner == Spec => []Owned
BY Invariant, PTL DEF IInv

(* The abstract state before the first call. *)
LEMMA InitRefines == Init => Fifo!Init
<1> SUFFICES ASSUME Init PROVE Fifo!Init
  OBVIOUS
<1>1. \A t \in Threads : pc[t] = "idle" /\ pkt[t] = NULL
  BY DEF Init
<1>2. {u \in Producers : pc[u] \in {"put_lock", "put_link"}} = {}
  BY <1>1 DEF Threads
<1>3. {c \in Consumers : pc[c] \in {"get_lock", "get_quit", "get_take", "wait"}} = {}
  BY <1>1 DEF Threads
<1>4. [c \in Consumers |-> pkt[c]] = [c \in Consumers |-> NULL]
  BY <1>1 DEF Threads
<1> QED BY <1>2, <1>3, <1>4 DEF Init, packet_queue_init, Fifo!Init

InHand == {pkt[t] : t \in {u \in Producers : pc[u] \in {"put_lock", "put_link"}}}
Called == {c \in Consumers : pc[c] \in {"get_lock", "get_quit", "get_take", "wait"}}
Got == [c \in Consumers |-> pkt[c]]

(* Every step of the queue is a step of the fifo or leaves it alone. *)
LEMMA StepRefines == IInv /\ [Next]_vars => [Fifo!Next]_(Fifo!vars)
<1> SUFFICES ASSUME IInv, [Next]_vars PROVE [Fifo!Next]_(Fifo!vars)
  OBVIOUS
<1> USE QueueAssumption DEF Threads, PutStates, GetStates, listVars,
        countVars, callVars, Goto, IInv, TypeOK, PcInv, Owned, Unlinked
<1>1. ASSUME InHand' \cup unread' = InHand \cup unread, Called' = Called,
             Got' = Got, chain' = chain, quit' = quit, late' = late
      PROVE  UNCHANGED Fifo!vars
  BY <1>1 DEF Fifo!vars, InHand, Called, Got
<1>2. ASSUME NEW t \in Producers, PutCall(t) PROVE UNCHANGED Fifo!vars
  <2>1. InHand' \cup unread' = InHand \cup unread
    BY <1>2 DEF PutCall, InHand
  <2>2. Called' = Called /\ Got' = Got
    BY <1>2 DEF PutCall, Called, Got
  <2> QED BY <1>1, <1>2, <2>1, <2>2 DEF PutCall
<1>3. ASSUME NEW t \in Producers, PutFails(t) PROVE Fifo!Next
  <2>1. PICK p \in unread : unread' = unread \ {p}
    BY <1>3 DEF PutFails
  <2>2. InHand' = InHand /\ Called' = Called /\ Got' = Got
    BY <1>3 DEF PutFails, InHand, Called, Got
  <2>3. p \notin InHand
    BY DEF InHand
  <2>4. Fifo!Drop(p)
    BY <1>3, <2>1, <2>2, <2>3 DEF PutFails, Fifo!Drop, InHand, Called, Got
  <2> QED BY <2>4 DEF Fifo!Next
<1>4. ASSUME NEW t \in Producers, PutLock(t) PROVE UNCHANGED Fifo!vars
  <2>1. InHand' = InHand /\ Called' = Called /\ Got' = Got
    BY <1>4 DEF PutLock, InHand, Called, Got
  <2> QED BY <1>1, <1>4, <2>1 DEF PutLock
<1>5. ASSUME NEW t \in Producers, PutLink(t) PROVE Fifo!Next
  <2>1. pkt[t] \in Packets /\ pkt[t] \in InHand /\ pkt[t] \notin unread
    BY <1>5 DEF PutLink, InHand
  <2>2. InHand' = InHand \ {pkt[t]}
    BY <1>5 DEF PutLink, InHand
  <2>3. Called' = Called /\ Got' = Got
    BY <1>5 DEF PutLink, Called, Got
  <2>4. PICK p \in Packets : p = pkt[t]
    BY <2>1
  <2>5. Fifo!Put(p)
    BY <1>5, <2>1, <2>2, <2>3, <2>4
    DEF PutLink, Fifo!Put, InHand, Called, Got
  <2> QED BY <2>5 DEF Fifo!Next
<1>6. ASSUME NEW t \in Producers, PutCount(t) PROVE UNCHANGED Fifo!vars
  <2>1. InHand' = InHand /\ Called' = Called /\ Got' = Got
    BY <1>6 DEF PutCount, InHand, Called, Got
  <2> QED BY <1>1, <1>6, <2>1 DEF PutCount
<1>7. ASSUME NEW t \in Producers, PutSignal(t) PROVE UNCHANGED Fifo!vars
  <2>1. CASE Waiters = {} /\ Goto(t, "put_unlock")
    BY <1>1, <1>7, <2>1 DEF PutSignal, InHand, Called, Got
  <2>2. ASSUME NEW c \in Waiters,
               pc' = [pc EXCEPT ![t] = "put_unlock", ![c] = "get_lock"]
        PROVE  UNCHANGED Fifo!vars
    <3>1. c \in Consumers /\ pc[c] = "wait" /\ c \notin Producers
      BY DEF Waiters
    <3>2. \A u \in Producers : pc'[u] = IF u = t THEN "put_unlock" ELSE pc[u]
      BY <2>2, <3>1
    <3>3. \A d \in Consumers : pc'[d] = IF d = c THEN "get_lock" ELSE pc[d]
      BY <2>2, <3>1
    <3>4. pkt' = pkt /\ pc[t] = "put_signal"
      BY <1>7 DEF PutSignal
    <3>5. InHand' = InHand
      <4>1. \A u \in Producers :
              pc'[u] \in {"put_lock", "put_link"}
                <=> pc[u] \in {"put_lock", "put_link"}
        BY <3>2, <3>4
      <4> QED BY <3>4, <4>1 DEF InHand
    <3>6. Called' = Called
      <4>1. \A d \in Consumers :
              pc'[d] \in {"get_lock", "get_quit", "get_take", "wait"}
                <=> pc[d] \in {"get_lock", "get_quit", "get_take", "wait"}
        BY <3>1, <3>3
      <4> QED BY <4>1 DEF Called
    <3>7. Got' = Got
      BY <3>4 DEF Got
    <3> QED BY <1>1, <1>7, <3>5, <3>6, <3>7 DEF PutSignal
  <2> QED BY <1>7, <2>1, <2>2 DEF PutSignal
<1>8. ASSUME NEW t \in Producers, PutUnlock(t) PROVE UNCHANGED Fifo!vars
  <2>1. InHand' = InHand /\ Called' = Called /\ Got' = Got
    BY <1>8 DEF PutUnlock, InHand, Called, Got
  <2> QED BY <1>1, <1>8, <2>1 DEF PutUnlock
<1>9. ASSUME NEW c \in Consumers, GetCall(c) PROVE Fifo!Next
  <2>1. InHand' = InHand /\ c \notin Called /\ Called' = Called \cup {c}
    BY <1>9 DEF GetCall, InHand, Called
  <2>2. Got' = [Got EXCEPT ![c] = NULL]
    BY <1>9 DEF GetCall, Got
  <2>3. Fifo!Call(c)
    BY <1>9, <2>1, <2>2 DEF GetCall, Fifo!Call, InHand, Called, Got
  <2> QED BY <2>3 DEF Fifo!Next
<1>10. ASSUME NEW c \in Consumers, GetLock(c) PROVE UNCHANGED Fifo!vars
  <2>1. InHand' = InHand /\ Called' = Called /\ Got' = Got
    BY <1>10 DEF GetLock, InHand, Called, Got
  <2> QED BY <1>1, <1>10, <2>1 DEF GetLock
<1>11. ASSUME NEW c \in Consumers, GetQuit(c)
       PROVE  Fifo!Next \/ UNCHANGED Fifo!vars
  <2>1. InHand' = InHand /\ Got' = Got
    BY <1>11 DEF GetQuit, InHand, Got
  <2>2. CASE ~quit
    <3>1. Called' = Called
      BY <1>11, <2>2 DEF GetQuit, Called
    <3> QED BY <1>1, <1>11, <2>1, <3>1 DEF GetQuit
  <2>3. CASE quit
    <3>1. c \in Called /\ Called' = Called \ {c}
      BY <1>11, <2>3 DEF GetQuit, Called
    <3>2. Fifo!Refuse(c)
      BY <1>11, <2>1, <2>3, <3>1
      DEF GetQuit, Fifo!Refuse, InHand, Called, Got
    <3> QED BY <3>2 DEF Fifo!Next
  <2> QED BY <2>2, <2>3
<1>12. ASSUME NEW c \in Consumers, GetTake(c) PROVE Fifo!Next
  <2>1. chain # <<>> /\ first_pkt = Head(chain) /\ ~late[c]
    BY <1>12 DEF GetTake, ListWellFormed, LateInv
  <2>2. InHand' = InHand /\ c \in Called /\ Called' = Called \ {c}
    BY <1>12 DEF GetTake, InHand, Called
  <2>3. Got' = [Got EXCEPT ![c] = Head(chain)]
    BY <1>12, <2>1 DEF GetTake, Got
  <2>4. Fifo!Deliver(c)
    BY <1>12, <2>1, <2>2, <2>3 DEF GetTake, Fifo!Deliver, InHand, Called, Got
  <2> QED BY <2>4 DEF Fifo!Next
<1>13. ASSUME NEW c \in Consumers, GetCount(c) PROVE UNCHANGED Fifo!vars
  <2>1. InHand' = InHand /\ Called' = Called /\ Got' = Got
    BY <1>13 DEF GetCount, InHand, Called, Got
  <2> QED BY <1>1, <1>13, <2>1 DEF GetCount
<1>14. ASSUME NEW c \in Consumers, GetEmpty(c) PROVE Fifo!Next
  <2>1. chain = <<>>
    BY <1>14 DEF GetEmpty, ListWellFormed
  <2>2. InHand' = InHand /\ Got' = Got /\ c \in Called /\ Called' = Called \ {c}
    BY <1>14 DEF GetEmpty, InHand, Got, Called
  <2>3. Fifo!Refuse(c)
    BY <1>14, <2>1, <2>2 DEF GetEmpty, Fifo!Refuse, InHand, Called, Got
  <2> QED BY <2>3 DEF Fifo!Next
<1>15. ASSUME NEW c \in Consumers, GetWait(c) PROVE UNCHANGED Fifo!vars
  <2>1. InHand' = InHand /\ Called' = Called /\ Got' = Got
    BY <1>15 DEF GetWait, InHand, Called, Got
  <2> QED BY <1>1, <1>15, <2>1 DEF GetWait
<1>16. ASSUME NEW c \in Consumers, SpuriousWakeup(c) PROVE UNCHANGED Fifo!vars
  <2>1. InHand' = InHand /\ Called' = Called /\ Got' = Got
    BY <1>16 DEF SpuriousWakeup, InHand, Called, Got
  <2> QED BY <1>1, <1>16, <2>1 DEF SpuriousWakeup
<1>17. ASSUME NEW c \in Consumers, GetUnlock(c) PROVE UNCHANGED Fifo!vars
  <2>1. InHand' = InHand /\ Called' = Called /\ Got' = Got
    BY <1>17 DEF GetUnlock, InHand, Called, Got
  <2> QED BY <1>1, <1>17, <2>1 DEF GetUnlock
<1>18. ASSUME SetQuit PROVE Fifo!Next
  <2>1. Fifo!SetQuit
    BY <1>18 DEF SetQuit, Fifo!SetQuit
  <2> QED BY <2>1 DEF Fifo!Next
<1>19. ASSUME UNCHANGED vars PROVE UNCHANGED Fifo!vars
  BY <1>19 DEF vars, Fifo!vars
<1> QED
  BY <1>2, <1>3, <1>4, <1>5, <1>6, <1>7, <1>8, <1>9, <1>10, <1>11, <1>12,
     <1>13, <1>14, <1>15, <1>16, <1>17, <1>18, <1>19
  DEF Next, packet_queue_put, packet_queue_get

(* Refinement: the linked list, its mutex and its condition variable       *)
(* implement the abstract fifo: packets come out once and in order, a get  *)
(* called after quit delivers nothing, and only quit makes a blocking get  *)
(* give up.                                                                *)
THEOREM ImplementsFifo == Spec => FifoSpec
<1>1. Spec => Fifo!Init /\ [][Fifo!Next]_(Fifo!vars)
  BY Invariant, InitRefines, StepRefines, PTL DEF Spec
<1> QED BY <1>1 DEF FifoSpec, Fifo!Spec
----------------------------------------------------------------------------
(* Wakeups: the consumers that will still look at the list, and the        *)
(* producers that linked a packet and have not signalled yet.              *)
Looking == {c \in Consumers : pc[c] \in {"get_lock", "get_quit", "get_take"}}
Owing == {t \in Producers : pc[t] \in {"put_count", "put_signal"}}

(* Finitely many threads are inside a call at any time, since a step lets  *)
(* in one: the two cardinalities are numbers even if the sets of threads   *)
(* were infinite.                                                          *)
WakeInv ==
  /\ IsFiniteSet(Looking)
  /\ IsFiniteSet(Owing)
  /\ NoLostWakeup

(* The balance of NoLostWakeup, over the two sets by name. *)
LEMMA WakeBalance ==
  ASSUME IsFiniteSet(Looking), IsFiniteSet(Owing)
  PROVE  /\ Cardinality(Looking) \in Nat
         /\ Cardinality(Owing) \in Nat
         /\ NoLostWakeup <=>
              (~quit /\ Waiters # {} =>
                 Len(chain) <= Cardinality(Looking) + Cardinality(Owing))
<1>1. Cardinality(Looking) \in Nat /\ Cardinality(Owing) \in Nat
  BY FS_CardinalityType
<1> QED BY <1>1 DEF NoLostWakeup, Looking, Owing

(* A step after which no more packets are in the list, nobody has left the *)
(* two sets and nobody new is parked keeps the balance.                    *)
LEMMA WakeKept ==
  ASSUME IInv, WakeInv, quit => quit', chain' = chain, Waiters' \subseteq Waiters,
         Looking' = Looking \/ \E c : Looking' = Looking \cup {c},
         Owing' = Owing
  PROVE  WakeInv'
<1>1. /\ IsFiniteSet(Looking')
      /\ Cardinality(Looking') >= Cardinality(Looking)
  <2>1. Cardinality(Looking) \in Nat
    BY FS_CardinalityType DEF WakeInv
  <2>2. CASE Looking' = Looking
    BY <2>1, <2>2 DEF WakeInv
  <2>3. CASE \E c : Looking' = Looking \cup {c}
    <3>1. PICK c : Looking' = Looking \cup {c}
      BY <2>3
    <3>2. /\ IsFiniteSet(Looking \cup {c})
          /\ Cardinality(Looking \cup {c}) >= Cardinality(Looking)
      BY <2>1, FS_AddElement DEF WakeInv
    <3> QED BY <3>1, <3>2
  <2> QED BY <2>2, <2>3
<1>2. IsFiniteSet(Owing') /\ Cardinality(Owing') = Cardinality(Owing)
  BY DEF WakeInv
<1>3. Cardinality(Looking) \in Nat /\ Cardinality(Owing) \in Nat
      /\ Cardinality(Looking') \in Nat
  BY <1>1, FS_CardinalityType DEF WakeInv
<1>4. ~quit /\ Waiters # {} =>
        Len(chain) <= Cardinality(Looking) + Cardinality(Owing)
  BY WakeBalance DEF WakeInv
<1>5. ~quit' /\ Waiters' # {} =>
        Len(chain') <= Cardinality(Looking') + Cardinality(Owing')
  <2>1. Len(chain) \in Nat
    BY DEF IInv, TypeOK
  <2> QED BY <1>1, <1>2, <1>3, <1>4, <2>1
<1>6. NoLostWakeup'
  BY <1>5 DEF NoLostWakeup, Looking, Owing
<1> QED BY <1>1, <1>2, <1>6 DEF WakeInv

(* At the start no thread is inside a call. *)
LEMMA InitWake == Init => WakeInv
<1> SUFFICES ASSUME Init PROVE WakeInv
  OBVIOUS
<1>1. Looking = {} /\ Owing = {} /\ Waiters = {}
  BY DEF Init, Looking, Owing, Waiters, Threads
<1> QED BY <1>1, FS_EmptySet DEF WakeInv, NoLostWakeup

(* Every step keeps the balance between packets and wakeups. *)
LEMMA StepWake == IInv /\ WakeInv /\ [Next]_vars => WakeInv'
<1> SUFFICES ASSUME IInv, WakeInv, [Next]_vars PROVE WakeInv'
  OBVIOUS
<1>0. /\ pc \in [Threads -> {"idle"} \cup PutStates \cup GetStates]
      /\ chain \in Seq(Packets)
      /\ \A t \in Producers : t \in Threads /\ t \notin Consumers
      /\ \A c \in Consumers : c \in Threads /\ c \notin Producers
  BY QueueAssumption DEF IInv, TypeOK, Threads
<1> USE DEF listVars, countVars, callVars, Goto
<1>1. ASSUME NEW t \in Producers, PutCall(t) PROVE WakeInv'
  <2>1. Looking' = Looking /\ Owing' = Owing /\ Waiters' = Waiters
    BY <1>0, <1>1 DEF PutCall, Looking, Owing, Waiters
  <2> QED BY <1>1, <2>1, WakeKept DEF PutCall
<1>2. ASSUME NEW t \in Producers, PutFails(t) PROVE WakeInv'
  <2>1. Looking' = Looking /\ Owing' = Owing /\ Waiters' = Waiters
    BY <1>2 DEF PutFails, Looking, Owing, Waiters
  <2> QED BY <1>2, <2>1, WakeKept DEF PutFails
<1>3. ASSUME NEW t \in Producers, PutLock(t) PROVE WakeInv'
  <2>1. Looking' = Looking /\ Owing' = Owing /\ Waiters' = Waiters
    BY <1>0, <1>3 DEF PutLock, Looking, Owing, Waiters
  <2> QED BY <1>3, <2>1, WakeKept DEF PutLock
<1>4. ASSUME NEW t \in Producers, PutLink(t) PROVE WakeInv'
  <2>1. /\ Looking' = Looking
        /\ t \notin Owing /\ Owing' = Owing \cup {t}
        /\ Waiters' = Waiters
    BY <1>0, <1>4 DEF PutLink, Looking, Owing, Waiters
  <2>2. pkt[t] \in Packets /\ quit' = quit /\ chain' = Append(chain, pkt[t])
    BY <1>4 DEF PutLink, IInv, Owned
  <2>3. Len(chain) \in Nat /\ Len(chain') = Len(chain) + 1
    BY <1>0, <2>2
  <2>4. IsFiniteSet(Owing') /\ Cardinality(Owing') = Cardinality(Owing) + 1
    BY <2>1, FS_AddElement DEF WakeInv
  <2>5. IsFiniteSet(Looking') /\ Cardinality(Looking') = Cardinality(Looking)
    BY <2>1 DEF WakeInv
  <2>6. /\ Cardinality(Looking) \in Nat /\ Cardinality(Owing) \in Nat
        /\ ~quit /\ Waiters # {} =>
             Len(chain) <= Cardinality(Looking) + Cardinality(Owing)
    BY WakeBalance DEF WakeInv
  <2>7. ~quit' /\ Waiters' # {} =>
          Len(chain') <= Cardinality(Looking') + Cardinality(Owing')
    BY <2>1, <2>2, <2>3, <2>4, <2>5, <2>6
  <2>8. NoLostWakeup'
    BY <2>7 DEF NoLostWakeup, Looking, Owing
  <2> QED BY <2>4, <2>5, <2>8 DEF WakeInv
<1>5. ASSUME NEW t \in Producers, PutCount(t) PROVE WakeInv'
  <2>1. Looking' = Looking /\ Owing' = Owing /\ Waiters' = Waiters
    BY <1>0, <1>5 DEF PutCount, Looking, Owing, Waiters
  <2> QED BY <1>5, <2>1, WakeKept DEF PutCount
<1>6. ASSUME NEW t \in Producers, PutSignal(t) PROVE WakeInv'
  <2>1. chain' = chain /\ quit' = quit /\ t \in Owing
    BY <1>6 DEF PutSignal, Owing
  <2>2. CASE Waiters = {} /\ Goto(t, "put_unlock")
    <3>1. Looking' = Looking /\ Owing' = Owing \ {t} /\ Waiters' = {}
      BY <1>0, <1>6, <2>2 DEF PutSignal, Looking, Owing, Waiters
    <3>2. IsFiniteSet(Owing') /\ IsFiniteSet(Looking')
      BY <3>1, FS_RemoveElement DEF WakeInv
    <3> QED BY <3>1, <3>2 DEF WakeInv, NoLostWakeup
  <2>3. ASSUME NEW c \in Waiters,
               pc' = [pc EXCEPT ![t] = "put_unlock", ![c] = "get_lock"]
        PROVE  WakeInv'
    <3>1. c \in Consumers /\ pc[c] = "wait" /\ c # t
      BY <1>0 DEF Waiters
    <3>2. \A u \in Threads : pc'[u] = IF u = c THEN "get_lock"
                                      ELSE IF u = t THEN "put_unlock" ELSE pc[u]
      BY <1>0, <2>3, <3>1
    <3>3. c \notin Looking /\ Looking' = Looking \cup {c}
      BY <1>0, <3>1, <3>2 DEF Looking
    <3>4. Owing' = Owing \ {t}
      BY <1>0, <3>1, <3>2 DEF Owing
    <3>5. IsFiniteSet(Looking')
          /\ Cardinality(Looking') = Cardinality(Looking) + 1
      BY <3>3, FS_AddElement DEF WakeInv
    <3>6. IsFiniteSet(Owing') /\ Cardinality(Owing') = Cardinality(Owing) - 1
      BY <2>1, <3>4, FS_RemoveElement DEF WakeInv
    <3>7. /\ Cardinality(Looking) \in Nat /\ Cardinality(Owing) \in Nat
          /\ ~quit /\ Waiters # {} =>
               Len(chain) <= Cardinality(Looking) + Cardinality(Owing)
      BY WakeBalance DEF WakeInv
    <3>8. ~quit' /\ Waiters' # {} =>
            Len(chain') <= Cardinality(Looking') + Cardinality(Owing')
      <4>1. Waiters # {} /\ Len(chain) \in Nat
        BY <1>0, <2>3
      <4> QED BY <2>1, <3>5, <3>6, <3>7, <4>1
    <3>9. NoLostWakeup'
      BY <3>8 DEF NoLostWakeup, Looking, Owing
    <3> QED BY <3>5, <3>6, <3>9 DEF WakeInv
  <2> QED BY <1>6, <2>2, <2>3 DEF PutSignal
<1>7. ASSUME NEW t \in Producers, PutUnlock(t) PROVE WakeInv'
  <2>1. Looking' = Looking /\ Owing' = Owing /\ Waiters' = Waiters
    BY <1>0, <1>7 DEF PutUnlock, Looking, Owing, Waiters
  <2> QED BY <1>7, <2>1, WakeKept DEF PutUnlock
<1>8. ASSUME NEW c \in Consumers, GetCall(c) PROVE WakeInv'
  <2>1. Looking' = Looking \cup {c} /\ Owing' = Owing /\ Waiters' = Waiters
    BY <1>0, <1>8 DEF GetCall, Looking, Owing, Waiters
  <2> QED BY <1>8, <2>1, WakeKept DEF GetCall
<1>9. ASSUME NEW c \in Consumers, GetLock(c) PROVE WakeInv'
  <2>1. Looking' = Looking /\ Owing' = Owing /\ Waiters' = Waiters
    BY <1>0, <1>9 DEF GetLock, Looking, Owing, Waiters
  <2> QED BY <1>9, <2>1, WakeKept DEF GetLock
<1>10. ASSUME NEW c \in Consumers, GetQuit(c) PROVE WakeInv'
  <2>1. CASE ~quit
    <3>1. Looking' = Looking /\ Owing' = Owing /\ Waiters' = Waiters
      BY <1>0, <1>10, <2>1 DEF GetQuit, Looking, Owing, Waiters
    <3> QED BY <1>10, <3>1, WakeKept DEF GetQuit
  <2>2. CASE quit
    <3>1. Looking' = Looking \ {c} /\ Owing' = Owing /\ quit'
      BY <1>0, <1>10, <2>2 DEF GetQuit, Looking, Owing
    <3>2. IsFiniteSet(Looking') /\ IsFiniteSet(Owing')
      BY <3>1, FS_RemoveElement DEF WakeInv
    <3> QED BY <3>1, <3>2 DEF WakeInv, NoLostWakeup
  <2> QED BY <2>1, <2>2
<1>11. ASSUME NEW c \in Consumers, GetTake(c) PROVE WakeInv'
  <2>1. /\ c \in Looking /\ Looking' = Looking \ {c}
        /\ Owing' = Owing /\ Waiters' = Waiters
    BY <1>0, <1>11 DEF GetTake, Looking, Owing, Waiters
  <2>2. chain # <<>> /\ chain' = Tail(chain) /\ quit' = quit
    BY <1>11 DEF GetTake, IInv, ListWellFormed
  <2>3. Len(chain) \in Nat /\ Len(chain') = Len(chain) - 1
    BY <1>0, <2>2, NonEmptyLen
  <2>4. IsFiniteSet(Looking')
        /\ Cardinality(Looking') = Cardinality(Looking) - 1
    BY <2>1, FS_RemoveElement DEF WakeInv
  <2>5. IsFiniteSet(Owing') /\ Cardinality(Owing') = Cardinality(Owing)
    BY <2>1 DEF WakeInv
  <2>6. /\ Cardinality(Looking) \in Nat /\ Cardinality(Owing) \in Nat
        /\ ~quit /\ Waiters # {} =>
             Len(chain) <= Cardinality(Looking) + Cardinality(Owing)
    BY WakeBalance DEF WakeInv
  <2>7. ~quit' /\ Waiters' # {} =>
          Len(chain') <= Cardinality(Looking') + Cardinality(Owing')
    BY <2>1, <2>2, <2>3, <2>4, <2>5, <2>6
  <2>8. NoLostWakeup'
    BY <2>7 DEF NoLostWakeup, Looking, Owing
  <2> QED BY <2>4, <2>5, <2>8 DEF WakeInv
<1>12. ASSUME NEW c \in Consumers, GetCount(c) PROVE WakeInv'
  <2>1. Looking' = Looking /\ Owing' = Owing /\ Waiters' = Waiters
    BY <1>0, <1>12 DEF GetCount, Looking, Owing, Waiters
  <2> QED BY <1>12, <2>1, WakeKept DEF GetCount
<1>13. ASSUME NEW c \in Consumers, GetEmpty(c) \/ GetWait(c) PROVE WakeInv'
  <2>1. Looking' = Looking \ {c} /\ Owing' = Owing
    BY <1>0, <1>13 DEF GetEmpty, GetWait, Looking, Owing
  <2>2. chain' = <<>>
    BY <1>13 DEF GetEmpty, GetWait, IInv, ListWellFormed
  <2>3. IsFiniteSet(Looking') /\ IsFiniteSet(Owing')
    BY <2>1, FS_RemoveElement DEF WakeInv
  <2>4. Cardinality(Looking') \in Nat /\ Cardinality(Owing') \in Nat
    BY <2>3, FS_CardinalityType
  <2>5. Len(chain') <= Cardinality(Looking') + Cardinality(Owing')
    BY <2>2, <2>4
  <2>6. NoLostWakeup'
    BY <2>5 DEF NoLostWakeup, Looking, Owing
  <2> QED BY <2>3, <2>6 DEF WakeInv
<1>14. ASSUME NEW c \in Consumers, SpuriousWakeup(c) PROVE WakeInv'
  <2>1. /\ Looking' = Looking \cup {c} /\ Owing' = Owing
        /\ Waiters' \subseteq Waiters
    BY <1>0, <1>14 DEF SpuriousWakeup, Looking, Owing, Waiters
  <2> QED BY <1>14, <2>1, WakeKept DEF SpuriousWakeup
<1>15. ASSUME NEW c \in Consumers, GetUnlock(c) PROVE WakeInv'
  <2>1. Looking' = Looking /\ Owing' = Owing /\ Waiters' = Waiters
    BY <1>0, <1>15 DEF GetUnlock, Looking, Owing, Waiters
  <2> QED BY <1>15, <2>1, WakeKept DEF GetUnlock
<1>16. CASE SetQuit
  <2>1. Looking' = Looking /\ Owing' = Owing /\ Waiters' = Waiters
    BY <1>16 DEF SetQuit, Looking, Owing, Waiters
  <2> QED BY <1>16, <2>1, WakeKept DEF SetQuit
<1>17. CASE UNCHANGED vars
  <2>1. Looking' = Looking /\ Owing' = Owing /\ Waiters' = Waiters
    BY <1>17 DEF vars, Looking, Owing, Waiters
  <2> QED BY <1>17, <2>1, WakeKept DEF vars
<1> QED
  BY <1>1, <1>2, <1>3, <1>4, <1>5, <1>6, <1>7, <1>8, <1>9, <1>10, <1>11,
     <1>12, <1>13, <1>14, <1>15, <1>16, <1>17
  DEF Next, packet_queue_put, packet_queue_get

(* No wakeup is lost (lines 160 and 195): while a consumer is parked, the  *)
(* packets in the list are at most the consumers that are about to look at *)
(* it and the producers that have still to signal.                         *)
THEOREM NoWakeupLost == Spec => []NoLostWakeup
<1>1. WakeInv => NoLostWakeup
  BY DEF WakeInv
<1> QED BY <1>1, Invariant, InitWake, StepWake, PTL DEF Spec
----------------------------------------------------------------------------
(* The sum of the packet sizes.  BytesOf is a recursive function, and what *)
(* it computes is proved by induction (SetInduction).                      *)

(* All s[i] up to n are packets. *)
PacketsTo(s, n) == \A i \in 1 .. n : s[i] \in Packets

(* The function that BytesOf defines by recursion does satisfy its         *)
(* equations.                                                              *)
LEMMA BytesFunction ==
  ASSUME NEW n \in Nat, NEW s, PacketsTo(s, n)
  PROVE  \E f \in [0 .. n -> Int] :
           /\ f[0] = 0
           /\ \A i \in 1 .. n : f[i] = f[i - 1] + PktSize[s[i]]
           /\ BytesOf(s, n) = f[n]
<1> DEFINE G == [i \in 1 .. n |-> [x \in Int |-> x + PktSize[s[i]]]]
           Sums(f) == f = [i \in 0 .. n |->
                             IF i = 0 THEN 0 ELSE f[i - 1] + PktSize[s[i]]]
<1>1. \A i \in 1 .. n : PktSize[s[i]] \in Int
  BY QueueAssumption DEF PacketsTo
<1>2. G \in [1 .. n -> [Int -> Int]]
  BY <1>1
<1>3. PICK f \in [0 .. n -> Int] : Steps(f, 0, G, n)
  <2> HIDE DEF G
  <2>1. 0 \in Int
    OBVIOUS
  <2> QED BY <1>2, <2>1, RecursionExists
<1>4. f[0] = 0
  BY <1>3 DEF Steps
<1>5. ASSUME NEW i \in 1 .. n PROVE f[i] = f[i - 1] + PktSize[s[i]]
  <2>1. f[i] = G[i][f[i - 1]]
    BY <1>3 DEF Steps
  <2>2. f[i - 1] \in Int
    OBVIOUS
  <2> QED BY <2>1, <2>2
<1>6. Sums(f)
  BY <1>4, <1>5
<1> DEFINE g == CHOOSE h : Sums(h)
<1>7. Sums(g)
  BY <1>6
<1>8. g[0] = 0 /\ \A i \in 1 .. n : g[i] = g[i - 1] + PktSize[s[i]]
  <2>1. ASSUME NEW h, Sums(h)
        PROVE  h[0] = 0 /\ \A i \in 1 .. n : h[i] = h[i - 1] + PktSize[s[i]]
    BY <2>1
  <2> HIDE DEF g, Sums
  <2> QED BY <1>7, <2>1
<1>9. BytesOf(s, n) = g[n]
  BY DEF BytesOf
<1>10. f[n] = g[n]
  <2> DEFINE P == {k \in Nat : k <= n => f[k] = g[k]}
  <2>1. 0 \in P
    BY <1>4, <1>8
  <2>2. ASSUME NEW k \in Nat, k \in P PROVE k + 1 \in P
    <3> HIDE DEF g
    <3> QED BY <1>5, <1>8, <2>2
  <2>3. \A k \in Nat : k \in P
    <3> HIDE DEF P
    <3> QED BY <2>1, <2>2, NatSetInduction
  <2> QED BY <2>3
<1> HIDE DEF g
<1> QED BY <1>4, <1>5, <1>9, <1>10

(* BytesOf adds up one packet after the other. *)
LEMMA BytesStep ==
  ASSUME NEW n \in Nat, NEW s, PacketsTo(s, n)
  PROVE  /\ BytesOf(s, 0) = 0
         /\ \A k \in 0 .. n : BytesOf(s, k) \in Int
         /\ \A k \in 1 .. n : BytesOf(s, k) = BytesOf(s, k - 1) + PktSize[s[k]]
<1>1. PICK f \in [0 .. n -> Int] :
        /\ f[0] = 0
        /\ \A i \in 1 .. n : f[i] = f[i - 1] + PktSize[s[i]]
        /\ BytesOf(s, n) = f[n]
  BY BytesFunction
<1>2. ASSUME NEW k \in 0 .. n PROVE BytesOf(s, k) = f[k]
  <2>1. k \in Nat /\ PacketsTo(s, k)
    BY DEF PacketsTo
  <2>2. PICK g \in [0 .. k -> Int] :
          /\ g[0] = 0
          /\ \A i \in 1 .. k : g[i] = g[i - 1] + PktSize[s[i]]
          /\ BytesOf(s, k) = g[k]
    BY <2>1, BytesFunction
  <2> DEFINE P == {i \in Nat : i <= k => f[i] = g[i]}
  <2>3. 0 \in P
    BY <1>1, <2>2
  <2>4. ASSUME NEW i \in Nat, i \in P PROVE i + 1 \in P
    BY <1>1, <2>2, <2>4
  <2>5. \A i \in Nat : i \in P
    <3> HIDE DEF P
    <3> QED BY <2>3, <2>4, NatSetInduction
  <2> QED BY <2>1, <2>2, <2>5
<1>3. BytesOf(s, 0) = 0
  BY <1>1, <1>2
<1>4. \A k \in 0 .. n : BytesOf(s, k) \in Int
  BY <1>2
<1>5. \A k \in 1 .. n : BytesOf(s, k) = BytesOf(s, k - 1) + PktSize[s[k]]
  <2> TAKE k \in 1 .. n
  <2>1. k \in 0 .. n /\ k - 1 \in 0 .. n
    OBVIOUS
  <2> QED BY <1>1, <1>2, <2>1
<1> QED BY <1>3, <1>4, <1>5

(* The first n packets of two lists that agree so far have the same size. *)
LEMMA BytesAgree ==
  ASSUME NEW n \in Nat, NEW s, NEW t, PacketsTo(s, n),
         \A i \in 1 .. n : t[i] = s[i]
  PROVE  BytesOf(t, n) = BytesOf(s, n)
<1> DEFINE P == {k \in Nat : k <= n => BytesOf(t, k) = BytesOf(s, k)}
<1>1. PacketsTo(t, n)
  BY DEF PacketsTo
<1>2. 0 \in P
  BY <1>1, BytesStep
<1>3. ASSUME NEW k \in Nat, k \in P PROVE k + 1 \in P
  <2> SUFFICES ASSUME k + 1 <= n PROVE BytesOf(t, k + 1) = BytesOf(s, k + 1)
    OBVIOUS
  <2>1. BytesOf(t, k) = BytesOf(s, k) /\ k + 1 \in 1 .. n /\ (k + 1) - 1 = k
    BY <1>3
  <2>2. BytesOf(s, k + 1) = BytesOf(s, k) + PktSize[s[k + 1]]
    BY <2>1, BytesStep
  <2>3. BytesOf(t, k + 1) = BytesOf(t, k) + PktSize[t[k + 1]]
    BY <1>1, <2>1, BytesStep
  <2> QED BY <2>1, <2>2, <2>3
<1>4. \A k \in Nat : k \in P
  <2> HIDE DEF P
  <2> QED BY <1>2, <1>3, NatSetInduction
<1> QED BY <1>4

(* Without its first packet a list is smaller by that packet. *)
LEMMA BytesShift ==
  ASSUME NEW n \in Nat, NEW s, NEW t, PacketsTo(s, n + 1),
         \A i \in 1 .. n : t[i] = s[i + 1]
  PROVE  BytesOf(s, n + 1) = PktSize[s[1]] + BytesOf(t, n)
<1> DEFINE P == {k \in Nat : k <= n =>
                               BytesOf(s, k + 1) = PktSize[s[1]] + BytesOf(t, k)}
<1>1. PacketsTo(t, n)
  BY DEF PacketsTo
<1>2. n + 1 \in Nat /\ PktSize[s[1]] \in Int
  BY QueueAssumption DEF PacketsTo
<1>3. 0 \in P
  <2>1. BytesOf(s, 0) = 0 /\ BytesOf(t, 0) = 0
    BY <1>1, <1>2, BytesStep
  <2>2. 1 \in 1 .. n + 1 /\ 1 - 1 = 0 /\ 0 + 1 = 1
    OBVIOUS
  <2>3. BytesOf(s, 1) = BytesOf(s, 0) + PktSize[s[1]]
    BY <1>2, <2>2, BytesStep
  <2> QED BY <1>2, <2>1, <2>2, <2>3
<1>4. ASSUME NEW k \in Nat, k \in P PROVE k + 1 \in P
  <2> SUFFICES ASSUME k + 1 <= n
               PROVE  BytesOf(s, (k + 1) + 1) = PktSize[s[1]] + BytesOf(t, k + 1)
    OBVIOUS
  <2>1. /\ BytesOf(s, k + 1) = PktSize[s[1]] + BytesOf(t, k)
        /\ k + 1 \in 1 .. n /\ (k + 1) - 1 = k /\ k \in 0 .. n
        /\ (k + 1) + 1 \in 1 .. n + 1 /\ ((k + 1) + 1) - 1 = k + 1
    BY <1>4
  <2>2. BytesOf(s, (k + 1) + 1) = BytesOf(s, k + 1) + PktSize[s[(k + 1) + 1]]
    BY <1>2, <2>1, BytesStep
  <2>3. BytesOf(t, k + 1) = BytesOf(t, k) + PktSize[t[k + 1]]
        /\ BytesOf(t, k) \in Int
    BY <1>1, <2>1, BytesStep
  <2>4. PktSize[t[k + 1]] \in Int /\ t[k + 1] = s[(k + 1) + 1]
    BY <1>1, <2>1, QueueAssumption DEF PacketsTo
  <2> HIDE DEF P
  <2> QED BY <1>2, <2>1, <2>2, <2>3, <2>4
<1>5. \A k \in Nat : k \in P
  <2> HIDE DEF P
  <2> QED BY <1>3, <1>4, NatSetInduction
<1> QED BY <1>5

(* What the two changes of the list do to its size. *)
LEMMA SeqBytesSteps ==
  ASSUME NEW s \in Seq(Packets)
  PROVE  /\ SeqBytes(s) \in Int
         /\ \A p \in Packets : SeqBytes(Append(s, p)) = SeqBytes(s) + PktSize[p]
         /\ s # <<>> => SeqBytes(Tail(s)) = SeqBytes(s) - PktSize[s[1]]
<1>1. PICK n \in Nat : Len(s) = n
  OBVIOUS
<1>2. PacketsTo(s, n)
  BY <1>1 DEF PacketsTo
<1>3. SeqBytes(s) = BytesOf(s, n) /\ BytesOf(s, n) \in Int
  <2>1. n \in 0 .. n
    OBVIOUS
  <2> QED BY <1>1, <1>2, <2>1, BytesStep DEF SeqBytes
<1>4. ASSUME NEW p \in Packets
      PROVE  SeqBytes(Append(s, p)) = SeqBytes(s) + PktSize[p]
  <2>1. PICK t : t = Append(s, p)
    OBVIOUS
  <2>2. /\ Len(t) = n + 1 /\ t[n + 1] = p
        /\ \A i \in 1 .. n : t[i] = s[i]
    BY <1>1, <2>1
  <2>3. PacketsTo(t, n + 1) /\ n + 1 \in Nat /\ n + 1 \in 1 .. n + 1
        /\ (n + 1) - 1 = n
    BY <1>2, <2>2 DEF PacketsTo
  <2>4. BytesOf(t, n + 1) = BytesOf(t, n) + PktSize[t[n + 1]]
    BY <2>3, BytesStep
  <2>5. BytesOf(t, n) = BytesOf(s, n)
    BY <1>2, <2>2, BytesAgree
  <2>6. SeqBytes(t) = BytesOf(t, n + 1)
    BY <2>2 DEF SeqBytes
  <2> QED BY <1>3, <2>1, <2>2, <2>4, <2>5, <2>6
<1>5. ASSUME s # <<>> PROVE SeqBytes(Tail(s)) = SeqBytes(s) - PktSize[s[1]]
  <2>1. PICK t : t = Tail(s)
    OBVIOUS
  <2>2. n - 1 \in Nat /\ (n - 1) + 1 = n
    BY <1>1, <1>5, NonEmptyLen
  <2>3. /\ t \in Seq(Packets) /\ Len(t) = n - 1
        /\ \A i \in 1 .. n - 1 : t[i] = s[i + 1]
    BY <1>1, <1>5, <2>1
  <2>4. BytesOf(s, n) = PktSize[s[1]] + BytesOf(t, n - 1)
    BY <1>2, <2>2, <2>3, BytesShift
  <2>5. SeqBytes(t) = BytesOf(t, n - 1)
    BY <2>3 DEF SeqBytes
  <2>6. PktSize[s[1]] \in Int /\ BytesOf(t, n - 1) \in Int
    <3>1. 1 \in 1 .. n /\ n - 1 \in 0 .. n - 1
      BY <2>2
    <3>2. PacketsTo(t, n - 1)
      BY <2>3 DEF PacketsTo
    <3>3. PktSize[s[1]] \in Int
      BY <1>2, <3>1, QueueAssumption DEF PacketsTo
    <3>4. BytesOf(t, n - 1) \in Int
      BY <2>2, <3>1, <3>2, BytesStep
    <3> QED BY <3>3, <3>4
  <2> QED BY <1>3, <2>1, <2>4, <2>5, <2>6
<1> QED BY <1>3, <1>4, <1>5
(* size is exact up to the one update the holder of the mutex owes. *)
OwedBytes ==
  CASE mutex = NULL -> 0
    [] mutex # NULL /\ pc[mutex] = "put_count" -> -PktSize[pkt[mutex]]
    [] mutex # NULL /\ pc[mutex] = "get_count" -> PktSize[pkt[mutex]]
    [] OTHER -> 0

BytesInv == size = SeqBytes(chain) + OwedBytes

(* Both are 0 in the empty queue. *)
LEMMA InitBytes == Init => BytesInv
<1> SUFFICES ASSUME Init PROVE BytesInv
  OBVIOUS
<1>1. PacketsTo(chain, 0) /\ SeqBytes(chain) = BytesOf(chain, 0)
  BY DEF Init, PacketsTo, SeqBytes
<1>2. SeqBytes(chain) = 0
  BY <1>1, BytesStep
<1> QED BY <1>2 DEF Init, packet_queue_init, BytesInv, OwedBytes

(* A step that changes neither the list nor size owes what it owed. *)
LEMMA BytesKept ==
  ASSUME BytesInv, chain' = chain, size' = size, OwedBytes' = OwedBytes
  PROVE  BytesInv'
BY DEF BytesInv

(* Every step keeps size exact. *)
LEMMA StepBytes == IInv /\ BytesInv /\ [Next]_vars => BytesInv'
<1> SUFFICES ASSUME IInv, BytesInv, [Next]_vars PROVE BytesInv'
  OBVIOUS
<1>0. /\ pc \in [Threads -> {"idle"} \cup PutStates \cup GetStates]
      /\ pkt \in [Threads -> Packets \cup {NULL}]
      /\ chain \in Seq(Packets)
      /\ \A t \in Threads : t # NULL /\ (pc[t] \in Critical <=> mutex = t)
      /\ \A t \in Producers : t \in Threads /\ t \notin Consumers
      /\ \A c \in Consumers : c \in Threads /\ c \notin Producers
      /\ mutex \in Threads \cup {NULL}
  BY QueueAssumption DEF IInv, TypeOK, Threads, MutexInv
<1> USE DEF listVars, countVars, callVars, Goto
<1>1. ASSUME NEW t \in Producers, PutCall(t) PROVE BytesInv'
  <2>1. OwedBytes' = OwedBytes
    BY <1>0, <1>1 DEF PutCall, OwedBytes, Critical
  <2> QED BY <1>1, <2>1, BytesKept DEF PutCall
<1>2. ASSUME NEW t \in Producers, PutFails(t) PROVE BytesInv'
  <2>1. OwedBytes' = OwedBytes
    BY <1>2 DEF PutFails, OwedBytes
  <2> QED BY <1>2, <2>1, BytesKept DEF PutFails
<1>3. ASSUME NEW t \in Producers, PutLock(t) PROVE BytesInv'
  <2>1. OwedBytes' = OwedBytes
    BY <1>0, <1>3 DEF PutLock, OwedBytes
  <2> QED BY <1>3, <2>1, BytesKept DEF PutLock
<1>4. ASSUME NEW t \in Producers, PutLink(t) PROVE BytesInv'
  <2>1. pkt[t] \in Packets
    BY <1>4 DEF PutLink, IInv, Owned
  <2>2. /\ mutex = t /\ mutex' = t /\ size' = size
        /\ pc[t] = "put_link" /\ pc'[t] = "put_count" /\ pkt' = pkt
        /\ chain' = Append(chain, pkt[t])
    BY <1>0, <1>4 DEF PutLink, Critical
  <2>3. OwedBytes = 0 /\ OwedBytes' = -PktSize[pkt[t]]
    BY <1>0, <2>2 DEF OwedBytes
  <2>4. /\ SeqBytes(chain) \in Int /\ PktSize[pkt[t]] \in Int
        /\ SeqBytes(chain') = SeqBytes(chain) + PktSize[pkt[t]]
    BY <1>0, <2>1, <2>2, SeqBytesSteps, QueueAssumption
  <2> QED BY <2>2, <2>3, <2>4 DEF BytesInv
<1>5. ASSUME NEW t \in Producers, PutCount(t) PROVE BytesInv'
  <2>1. pkt[t] \in Packets
    BY <1>5 DEF PutCount, IInv, Owned
  <2>2. /\ mutex = t /\ mutex' = t /\ chain' = chain
        /\ pc[t] = "put_count" /\ pc'[t] = "put_signal"
        /\ size' = size + PktSize[pkt[t]]
    BY <1>0, <1>5 DEF PutCount, Critical
  <2>3. OwedBytes = -PktSize[pkt[t]] /\ OwedBytes' = 0
    BY <1>0, <2>2 DEF OwedBytes
  <2>4. SeqBytes(chain) \in Int /\ PktSize[pkt[t]] \in Int
    BY <1>0, <2>1, SeqBytesSteps, QueueAssumption
  <2> QED BY <2>2, <2>3, <2>4 DEF BytesInv
<1>6. ASSUME NEW t \in Producers, PutSignal(t) PROVE BytesInv'
  <2>1. mutex = t /\ mutex' = t /\ pc[t] = "put_signal"
    BY <1>0, <1>6 DEF PutSignal, Critical
  <2>2. pc'[t] = "put_unlock"
    <3>1. CASE Waiters = {} /\ Goto(t, "put_unlock")
      BY <1>0, <3>1
    <3>2. ASSUME NEW c \in Waiters,
                 pc' = [pc EXCEPT ![t] = "put_unlock", ![c] = "get_lock"]
          PROVE  pc'[t] = "put_unlock"
      BY <1>0, <3>2 DEF Waiters
    <3> QED BY <1>6, <3>1, <3>2 DEF PutSignal
  <2>3. OwedBytes' = OwedBytes
    BY <1>0, <2>1, <2>2 DEF OwedBytes
  <2> QED BY <1>6, <2>3, BytesKept DEF PutSignal
<1>7. ASSUME NEW t \in Producers, PutUnlock(t) PROVE BytesInv'
  <2>1. OwedBytes' = OwedBytes
    BY <1>0, <1>7 DEF PutUnlock, OwedBytes, Critical
  <2> QED BY <1>7, <2>1, BytesKept DEF PutUnlock
<1>8. ASSUME NEW c \in Consumers, GetCall(c) PROVE BytesInv'
  <2>1. OwedBytes' = OwedBytes
    BY <1>0, <1>8 DEF GetCall, OwedBytes, Critical
  <2> QED BY <1>8, <2>1, BytesKept DEF GetCall
<1>9. ASSUME NEW c \in Consumers, GetLock(c) PROVE BytesInv'
  <2>1. OwedBytes' = OwedBytes
    BY <1>0, <1>9 DEF GetLock, OwedBytes
  <2> QED BY <1>9, <2>1, BytesKept DEF GetLock
<1>10. ASSUME NEW c \in Consumers, GetQuit(c) PROVE BytesInv'
  <2>1. mutex = c /\ mutex' = c /\ pc[c] = "get_quit"
        /\ pc'[c] \in {"get_unlock", "get_take"}
    BY <1>0, <1>10 DEF GetQuit, Critical
  <2>2. OwedBytes' = OwedBytes
    BY <1>0, <2>1 DEF OwedBytes
  <2> QED BY <1>10, <2>2, BytesKept DEF GetQuit
<1>11. ASSUME NEW c \in Consumers, GetTake(c) PROVE BytesInv'
  <2>1. chain # <<>> /\ first_pkt = chain[1] /\ first_pkt \in Packets
    BY <1>11 DEF GetTake, IInv, TypeOK, ListWellFormed
  <2>2. /\ mutex = c /\ mutex' = c /\ size' = size
        /\ pc[c] = "get_take" /\ pc'[c] = "get_count"
        /\ pkt'[c] = first_pkt /\ chain' = Tail(chain)
    BY <1>0, <1>11 DEF GetTake, Critical
  <2>3. OwedBytes = 0 /\ OwedBytes' = PktSize[first_pkt]
    BY <1>0, <2>2 DEF OwedBytes
  <2>4. /\ SeqBytes(chain) \in Int /\ PktSize[first_pkt] \in Int
        /\ SeqBytes(chain') = SeqBytes(chain) - PktSize[first_pkt]
    BY <1>0, <2>1, <2>2, SeqBytesSteps, QueueAssumption
  <2> QED BY <2>2, <2>3, <2>4 DEF BytesInv
<1>12. ASSUME NEW c \in Consumers, GetCount(c) PROVE BytesInv'
  <2>1. pkt[c] \in Packets
    BY <1>12 DEF GetCount, IInv, Owned
  <2>2. /\ mutex = c /\ mutex' = c /\ chain' = chain
        /\ pc[c] = "get_count" /\ pc'[c] = "get_unlock"
        /\ size' = size - PktSize[pkt[c]]
    BY <1>0, <1>12 DEF GetCount, Critical
  <2>3. OwedBytes = PktSize[pkt[c]] /\ OwedBytes' = 0
    BY <1>0, <2>2 DEF OwedBytes
  <2>4. SeqBytes(chain) \in Int /\ PktSize[pkt[c]] \in Int
    BY <1>0, <2>1, SeqBytesSteps, QueueAssumption
  <2> QED BY <2>2, <2>3, <2>4 DEF BytesInv
<1>13. ASSUME NEW c \in Consumers, GetEmpty(c) PROVE BytesInv'
  <2>1. OwedBytes' = OwedBytes
    BY <1>0, <1>13 DEF GetEmpty, OwedBytes, Critical
  <2> QED BY <1>13, <2>1, BytesKept DEF GetEmpty
<1>14. ASSUME NEW c \in Consumers, GetWait(c) PROVE BytesInv'
  <2>1. OwedBytes' = OwedBytes
    BY <1>0, <1>14 DEF GetWait, OwedBytes, Critical
  <2> QED BY <1>14, <2>1, BytesKept DEF GetWait
<1>15. ASSUME NEW c \in Consumers, SpuriousWakeup(c) PROVE BytesInv'
  <2>1. OwedBytes' = OwedBytes
    BY <1>0, <1>15 DEF SpuriousWakeup, OwedBytes, Critical
  <2> QED BY <1>15, <2>1, BytesKept DEF SpuriousWakeup
<1>16. ASSUME NEW c \in Consumers, GetUnlock(c) PROVE BytesInv'
  <2>1. OwedBytes' = OwedBytes
    BY <1>0, <1>16 DEF GetUnlock, OwedBytes, Critical
  <2> QED BY <1>16, <2>1, BytesKept DEF GetUnlock
<1>17. CASE SetQuit
  <2>1. OwedBytes' = OwedBytes
    BY <1>17 DEF SetQuit, OwedBytes
  <2> QED BY <1>17, <2>1, BytesKept DEF SetQuit
<1>18. CASE UNCHANGED vars
  <2>1. OwedBytes' = OwedBytes
    BY <1>18 DEF vars, OwedBytes
  <2> QED BY <1>18, <2>1, BytesKept DEF vars
<1> QED
  BY <1>1, <1>2, <1>3, <1>4, <1>5, <1>6, <1>7, <1>8, <1>9, <1>10, <1>11,
     <1>12, <1>13, <1>14, <1>15, <1>16, <1>17, <1>18
  DEF Next, packet_queue_put, packet_queue_get

(* The counters demux_thread reads without the mutex (lines 158-159 and    *)
(* 185-186): nb_packets is the length of the list and size the sum of its  *)
(* packets' sizes whenever no thread is between its list update and its    *)
(* counter update.                                                         *)
THEOREM CountersAreExact == Spec => []CountersExact
<1>1. IInv /\ BytesInv => CountersExact
  <2> SUFFICES ASSUME IInv, BytesInv,
                      \A t \in Threads : pc[t] \notin {"put_count", "get_count"}
               PROVE  nb_packets = Len(chain) /\ size = SeqBytes(chain)
    BY DEF CountersExact
  <2>1. mutex = NULL \/ pc[mutex] \notin {"put_count", "get_count"}
    BY DEF IInv, TypeOK
  <2>2. OwedBytes = 0 /\ SeqBytes(chain) \in Int
    BY <2>1, SeqBytesSteps DEF OwedBytes, IInv, TypeOK
  <2>3. nb_packets = Len(chain)
    BY <2>1 DEF IInv, TypeOK, NbInv
  <2> QED BY <2>2, <2>3 DEF BytesInv
<1> QED BY <1>1, Invariant, InitBytes, StepBytes, PTL DEF Spec
=============================================================================
