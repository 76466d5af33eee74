---------------------------- MODULE PacketQueue ----------------------------
(***************************************************************************)
(* The packet queue of the player (coding-279/player/player6.c, lines      *)
(* 37-43 and 134-200): a singly linked list of AVPacketList nodes between  *)
(* first_pkt and last_pkt, the counters nb_packets and size, one mutex and *)
(* one condition variable.                                                 *)
(*                                                                         *)
(* Threads call packet_queue_put (Producers) and packet_queue_get          *)
(* (Consumers).  Every statement that reads or writes shared state is a    *)
(* step of its own, so the interleavings are those of the C code.          *)
(*                                                                         *)
(* A node is identified with the packet it carries: put allocates exactly  *)
(* one node per packet and get frees it after unlinking it.                *)
(***************************************************************************)
EXTENDS Integers, Sequences, FiniteSets

CONSTANTS
  Producers,   \* threads that call packet_queue_put
  Consumers,   \* threads that call packet_queue_get
  Packets,     \* the packets av_read_frame may return
  PktSize,     \* pkt.size of every packet
  NULL         \* the null pointer, also "no thread" and "no packet"

Threads == Producers \cup Consumers

ASSUME QueueAssumption ==
  /\ Producers \cap Consumers = {}
  /\ NULL \notin Threads \cup Packets
  /\ PktSize \in [Packets -> Nat]

VARIABLES
  first_pkt,   \* q->first_pkt
  last_pkt,    \* q->last_pkt
  next,        \* AVPacketList.next of every node
  nb_packets,  \* q->nb_packets
  size,        \* q->size
  mutex,       \* the thread that holds q->mutex, or NULL
  quit,        \* global_video_state->quit
  pc,          \* where each thread is
  pkt,         \* put: pkt1, get: the packet stored through *pkt
  ret,         \* the value get returns: -1, 0 or 1
  block,       \* get's argument block
  unread,      \* packets av_read_frame has not returned yet
  freed,       \* nodes released by av_free
  chain,       \* auxiliary: the nodes of the list, in order
  late         \* auxiliary: gets that were called after quit was set

listVars  == <<first_pkt, last_pkt, next, chain>>
countVars == <<nb_packets, size>>
callVars  == <<pkt, ret, block, late>>
vars == <<listVars, countVars, mutex, quit, pc, callVars, unread, freed>>

PutStates == {"put_lock", "put_link", "put_count", "put_signal", "put_unlock"}
GetStates == {"get_lock", "get_quit", "get_take", "get_count", "get_unlock",
              "wait"}

(* packet_queue_init: memset to zero, a fresh mutex and condition.         *)
packet_queue_init ==
  /\ first_pkt = NULL
  /\ last_pkt = NULL
  /\ nb_packets = 0
  /\ size = 0
  /\ mutex = NULL

Init ==
  /\ packet_queue_init
  /\ next = [p \in Packets |-> NULL]
  /\ quit = FALSE
  /\ pc = [t \in Threads |-> "idle"]
  /\ pkt = [t \in Threads |-> NULL]
  /\ ret = [c \in Consumers |-> 0]
  /\ block = [c \in Consumers |-> TRUE]
  /\ unread = Packets
  /\ freed = {}
  /\ chain = <<>>
  /\ late = [c \in Consumers |-> FALSE]

Goto(t, to) == pc' = [pc EXCEPT ![t] = to]

----------------------------------------------------------------------------
(* packet_queue_put *)

(* Lines 139-149: av_dup_packet and av_malloc succeed, the node is filled. *)
PutCall(t) ==
  /\ pc[t] = "idle"
  /\ \E p \in unread :
       /\ unread' = unread \ {p}
       /\ pkt' = [pkt EXCEPT ![t] = p]
       /\ next' = [next EXCEPT ![p] = NULL]
  /\ Goto(t, "put_lock")
  /\ UNCHANGED <<first_pkt, last_pkt, chain, countVars, mutex, quit, ret,
                 block, late, freed>>

(* Lines 142-147: an allocation fails, put returns -1 and the caller of    *)
(* player6.c (lines 884 and 886) ignores it: the packet is gone.           *)
PutFails(t) ==
  /\ pc[t] = "idle"
  /\ \E p \in unread : unread' = unread \ {p}
  /\ UNCHANGED <<listVars, countVars, mutex, quit, pc, callVars, freed>>

PutLock(t) ==
  /\ pc[t] = "put_lock"
  /\ mutex = NULL
  /\ mutex' = t
  /\ Goto(t, "put_link")
  /\ UNCHANGED <<listVars, countVars, quit, callVars, unread, freed>>

(* Lines 153-157: append the node to the list. *)
PutLink(t) ==
  /\ pc[t] = "put_link"
  /\ IF last_pkt = NULL
       THEN first_pkt' = pkt[t] /\ UNCHANGED next
       ELSE next' = [next EXCEPT ![last_pkt] = pkt[t]] /\ UNCHANGED first_pkt
  /\ last_pkt' = pkt[t]
  /\ chain' = Append(chain, pkt[t])
  /\ Goto(t, "put_count")
  /\ UNCHANGED <<countVars, mutex, quit, callVars, unread, freed>>

(* Mutants: nb_packets++, or the update of size, is forgotten. *)
PutCountNoNb(t) ==
  /\ pc[t] = "put_count"
  /\ size' = size + PktSize[pkt[t]]
  /\ Goto(t, "put_signal")
  /\ UNCHANGED <<nb_packets, listVars, mutex, quit, callVars, unread, freed>>
PutCountNoSize(t) ==
  /\ pc[t] = "put_count"
  /\ nb_packets' = nb_packets + 1
  /\ Goto(t, "put_signal")
  /\ UNCHANGED <<size, listVars, mutex, quit, callVars, unread, freed>>

(* Lines 158-159. *)
PutCount(t) ==
  /\ pc[t] = "put_count"
  /\ nb_packets' = nb_packets + 1
  /\ size' = size + PktSize[pkt[t]]
  /\ Goto(t, "put_signal")
  /\ UNCHANGED <<listVars, mutex, quit, callVars, unread, freed>>

Waiters == {c \in Consumers : pc[c] = "wait"}

(* Mutant: SDL_CondSignal is missing. *)
PutNoSignal(t) ==
  /\ pc[t] = "put_signal"
  /\ Goto(t, "put_unlock")
  /\ UNCHANGED <<listVars, countVars, mutex, quit, callVars, unread, freed>>

(* Line 160, SDL_CondSignal: wakes one waiter, which then competes for the *)
(* mutex; without a waiter the signal is lost.                             *)
PutSignal(t) ==
  /\ pc[t] = "put_signal"
  /\ \/ /\ Waiters = {}
        /\ Goto(t, "put_unlock")
     \/ \E c \in Waiters :
          pc' = [pc EXCEPT ![t] = "put_unlock", ![c] = "get_lock"]
  /\ UNCHANGED <<listVars, countVars, mutex, quit, callVars, unread, freed>>

(* Lines 162-163: the caller drops its reference to the packet. *)
PutUnlock(t) ==
  /\ pc[t] = "put_unlock"
  /\ mutex' = NULL
  /\ pkt' = [pkt EXCEPT ![t] = NULL]
  /\ Goto(t, "idle")
  /\ UNCHANGED <<listVars, countVars, quit, ret, block, late, unread, freed>>

----------------------------------------------------------------------------
(* packet_queue_get *)

GetCall(c) ==
  /\ pc[c] = "idle"
  /\ \E b \in BOOLEAN : block' = [block EXCEPT ![c] = b]
  /\ pkt' = [pkt EXCEPT ![c] = NULL]
  /\ late' = [late EXCEPT ![c] = quit]
  /\ Goto(c, "get_lock")
  /\ UNCHANGED <<listVars, countVars, mutex, quit, ret, unread, freed>>

(* Line 171, and the mutex re-acquired at the end of SDL_CondWait. *)
GetLock(c) ==
  /\ pc[c] = "get_lock"
  /\ mutex = NULL
  /\ mutex' = c
  /\ Goto(c, "get_quit")
  /\ UNCHANGED <<listVars, countVars, quit, callVars, unread, freed>>

(* Mutant: quit is not tested in the loop. *)
GetQuitUntested(c) ==
  /\ pc[c] = "get_quit"
  /\ Goto(c, "get_take")
  /\ UNCHANGED <<listVars, countVars, mutex, quit, callVars, unread, freed>>

(* Lines 175-178. *)
GetQuit(c) ==
  /\ pc[c] = "get_quit"
  /\ \/ /\ quit
        /\ ret' = [ret EXCEPT ![c] = -1]
        /\ Goto(c, "get_unlock")
     \/ /\ ~quit
        /\ Goto(c, "get_take")
        /\ UNCHANGED ret
  /\ UNCHANGED <<listVars, countVars, mutex, quit, pkt, block, late, unread,
                 freed>>

(* Mutants: last_pkt is not reset when the list becomes empty; the node    *)
(* is handed out but not unlinked.                                         *)
GetTakeKeepsLast(c) ==
  /\ pc[c] = "get_take"
  /\ first_pkt # NULL
  /\ pkt' = [pkt EXCEPT ![c] = first_pkt]
  /\ first_pkt' = next[first_pkt]
  /\ chain' = Tail(chain)
  /\ Goto(c, "get_count")
  /\ UNCHANGED <<last_pkt, next, countVars, mutex, quit, ret, block, late,
                 unread, freed>>
GetTakeNoUnlink(c) ==
  /\ pc[c] = "get_take"
  /\ first_pkt # NULL
  /\ pkt' = [pkt EXCEPT ![c] = first_pkt]
  /\ Goto(c, "get_count")
  /\ UNCHANGED <<listVars, countVars, mutex, quit, ret, block, late, unread,
                 freed>>

(* Lines 180-184: unlink the first node. *)
GetTake(c) ==
  /\ pc[c] = "get_take"
  /\ first_pkt # NULL
  /\ pkt' = [pkt EXCEPT ![c] = first_pkt]
  /\ first_pkt' = next[first_pkt]
  /\ last_pkt' = IF next[first_pkt] = NULL THEN NULL ELSE last_pkt
  /\ chain' = Tail(chain)
  /\ Goto(c, "get_count")
  /\ UNCHANGED <<next, countVars, mutex, quit, ret, block, late, unread,
                 freed>>

(* Lines 185-190. *)
GetCount(c) ==
  /\ pc[c] = "get_count"
  /\ nb_packets' = nb_packets - 1
  /\ size' = size - PktSize[pkt[c]]
  /\ freed' = freed \cup {pkt[c]}
  /\ ret' = [ret EXCEPT ![c] = 1]
  /\ Goto(c, "get_unlock")
  /\ UNCHANGED <<listVars, mutex, quit, pkt, block, late, unread>>

(* Lines 191-193. *)
GetEmpty(c) ==
  /\ pc[c] = "get_take"
  /\ first_pkt = NULL
  /\ ~block[c]
  /\ ret' = [ret EXCEPT ![c] = 0]
  /\ Goto(c, "get_unlock")
  /\ UNCHANGED <<listVars, countVars, mutex, quit, pkt, block, late, unread,
                 freed>>

(* Line 195, SDL_CondWait: release the mutex and park, atomically. *)
GetWait(c) ==
  /\ pc[c] = "get_take"
  /\ first_pkt = NULL
  /\ block[c]
  /\ mutex' = NULL
  /\ Goto(c, "wait")
  /\ UNCHANGED <<listVars, countVars, quit, callVars, unread, freed>>

(* SDL_CondWait is pthread_cond_wait, which may return without a signal.   *)
SpuriousWakeup(c) ==
  /\ pc[c] = "wait"
  /\ Goto(c, "get_lock")
  /\ UNCHANGED <<listVars, countVars, mutex, quit, callVars, unread, freed>>

(* Lines 198-199. *)
GetUnlock(c) ==
  /\ pc[c] = "get_unlock"
  /\ mutex' = NULL
  /\ Goto(c, "idle")
  /\ UNCHANGED <<listVars, countVars, quit, callVars, unread, freed>>

(* main, line 965: is->quit = 1, without the mutex and without a signal.   *)
SetQuit ==
  /\ ~quit
  /\ quit' = TRUE
  /\ UNCHANGED <<listVars, countVars, mutex, pc, callVars, unread, freed>>

----------------------------------------------------------------------------

packet_queue_put(t) ==
  PutLock(t) \/ PutLink(t) \/ PutCount(t) \/ PutSignal(t) \/ PutUnlock(t)

packet_queue_get(c) ==
  \/ GetLock(c) \/ GetQuit(c) \/ GetTake(c) \/ GetCount(c)
  \/ GetEmpty(c) \/ GetWait(c) \/ GetUnlock(c)

Next ==
  \/ \E t \in Producers : PutCall(t) \/ PutFails(t) \/ packet_queue_put(t)
  \/ \E c \in Consumers : GetCall(c) \/ packet_queue_get(c) \/ SpuriousWakeup(c)
  \/ SetQuit

Spec == Init /\ [][Next]_vars

(* A thread inside a call keeps running and a free mutex is not withheld   *)
(* from a thread for ever: pthread mutexes under a fair scheduler.  Calls, *)
(* spurious wakeups and quit are not forced.                               *)
Fairness ==
  /\ \A t \in Producers : SF_vars(packet_queue_put(t))
  /\ \A c \in Consumers : SF_vars(packet_queue_get(c))

FairSpec == Spec /\ Fairness

----------------------------------------------------------------------------
(* Properties *)

(* The types of struct PacketQueue (lines 37-44) and of the locals of put  *)
(* and get; nb_packets never passes below zero.                            *)
TypeOK ==
  /\ first_pkt \in Packets \cup {NULL}
  /\ last_pkt \in Packets \cup {NULL}
  /\ next \in [Packets -> Packets \cup {NULL}]
  /\ nb_packets \in Nat
  /\ size \in Int
  /\ mutex \in Threads \cup {NULL}
  /\ quit \in BOOLEAN
  /\ pc \in [Threads -> {"idle"} \cup PutStates \cup GetStates]
  /\ pkt \in [Threads -> Packets \cup {NULL}]
  /\ ret \in [Consumers -> {-1, 0, 1}]
  /\ block \in [Consumers -> BOOLEAN]
  /\ unread \subseteq Packets
  /\ freed \subseteq Packets
  /\ chain \in Seq(Packets)
  /\ late \in [Consumers -> BOOLEAN]

Critical == {"put_link", "put_count", "put_signal", "put_unlock",
             "get_quit", "get_take", "get_count", "get_unlock"}

(* The mutex is held exactly by the thread that is between its lock and    *)
(* its unlock (or its wait), whatever the other threads do.                *)
MutexInv == \A t \in Threads : pc[t] \in Critical <=> mutex = t

(* The list that first_pkt, last_pkt and the next fields spell out is the  *)
(* sequence of packets that were put and not yet taken: it has no cycle,   *)
(* its last node ends it, and no node of it was freed by a get.            *)
ListWellFormed ==
  /\ chain = <<>> <=> first_pkt = NULL
  /\ chain = <<>> <=> last_pkt = NULL
  /\ chain # <<>> => /\ first_pkt = chain[1]
                     /\ last_pkt = chain[Len(chain)]
                     /\ next[last_pkt] = NULL
  /\ \A i \in 1 .. Len(chain) - 1 : next[chain[i]] = chain[i + 1]
  /\ \A i, j \in 1 .. Len(chain) : chain[i] = chain[j] => i = j
  /\ \A i \in 1 .. Len(chain) : chain[i] \notin freed

(* The packets and nodes are owned by one party at a time: a packet that a *)
(* put is about to link, or that a get has just unlinked, is in no other   *)
(* thread's hands, not in the list, not freed and not read again.          *)
Unlinked(t) == pc[t] \in {"put_lock", "put_link"}
Owned ==
  /\ \A t \in Producers : pc[t] # "idle" => pkt[t] \in Packets
  /\ \A t \in Producers : Unlinked(t) =>
       /\ next[pkt[t]] = NULL
       /\ pkt[t] \notin unread \cup freed
       /\ \A i \in 1 .. Len(chain) : chain[i] # pkt[t]
       /\ \A u \in Producers : Unlinked(u) /\ pkt[u] = pkt[t] => u = t
  /\ \A c \in Consumers : pc[c] = "get_count" =>
       /\ pkt[c] \in Packets \ unread
       /\ \A i \in 1 .. Len(chain) : chain[i] # pkt[c]
       /\ \A t \in Producers : Unlinked(t) => pkt[t] # pkt[c]
  /\ \A i \in 1 .. Len(chain) : chain[i] \notin unread
  /\ freed \cap unread = {}

(* nb_packets and size, which demux_thread reads without the mutex to      *)
(* decide whether it may read on, agree with the list whenever no thread   *)
(* is between the list update and the counter update.                      *)
BytesOf(s, n) ==
  LET Sum[i \in 0 .. n] == IF i = 0 THEN 0 ELSE Sum[i - 1] + PktSize[s[i]]
  IN  Sum[n]
SeqBytes(s) == BytesOf(s, Len(s))
CountersExact ==
  (\A t \in Threads : pc[t] \notin {"put_count", "get_count"})
    => nb_packets = Len(chain) /\ size = SeqBytes(chain)

(* No wakeup is lost: while a consumer is parked, every packet in the list *)
(* is matched by a consumer that is awake inside get or by a producer that *)
(* has still to signal, so the parked consumer owes nothing.               *)
NoLostWakeup ==
  ~quit /\ Waiters # {} =>
    Len(chain) <=
      Cardinality({c \in Consumers : pc[c] \in {"get_lock", "get_quit", "get_take"}})
      + Cardinality({t \in Producers : pc[t] \in {"put_count", "put_signal"}})

(* A consumer parked in SDL_CondWait with a packet in the list comes back  *)
(* from the wait, or the packet was taken by another consumer, or the      *)
(* player quit meanwhile.                                                  *)
ParkedIsServed ==
  \A c \in Consumers :
    (pc[c] = "wait" /\ chain # <<>>) ~> (pc[c] # "wait" \/ chain = <<>> \/ quit)

(* The queue implements the abstract fifo.  A put takes effect when the    *)
(* node is linked, a get when the first node is unlinked.                  *)
Fifo == INSTANCE PacketFifo WITH
  fifo   <- chain,
  unread <- unread \cup {pkt[t] : t \in {u \in Producers :
                                         pc[u] \in {"put_lock", "put_link"}}},
  called <- {c \in Consumers : pc[c] \in {"get_lock", "get_quit", "get_take", "wait"}},
  got    <- [c \in Consumers |-> pkt[c]]

FifoSpec == Fifo!Spec

============================================================================
