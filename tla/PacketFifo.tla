----------------------------- MODULE PacketFifo -----------------------------
(***************************************************************************)
(* What the packet queue of player6.c promises to the threads that use it, *)
(* without its list, its mutex and its condition variable: packets come    *)
(* out once, in the order they went in; a get that was called after quit   *)
(* was set returns no packet; only a quit makes a get return -1.           *)
(***************************************************************************)
EXTENDS Sequences

CONSTANTS Consumers, Packets, NULL

VARIABLES
  fifo,    \* the packets in the queue, oldest first
  unread,  \* the packets not put or dropped yet
  quit,    \* the player is shutting down
  called,  \* the consumers that are inside a get
  late,    \* which of those calls began after quit was set
  got      \* the packet each consumer's last get delivered, or NULL

vars == <<fifo, unread, quit, called, late, got>>

Init ==
  /\ fifo = <<>>
  /\ unread = Packets
  /\ quit = FALSE
  /\ called = {}
  /\ late = [c \in Consumers |-> FALSE]
  /\ got = [c \in Consumers |-> NULL]

Put(p) ==
  /\ p \in unread
  /\ unread' = unread \ {p}
  /\ fifo' = Append(fifo, p)
  /\ UNCHANGED <<quit, called, late, got>>

(* An allocation failure loses the packet that was being put. *)
Drop(p) ==
  /\ p \in unread
  /\ unread' = unread \ {p}
  /\ UNCHANGED <<fifo, quit, called, late, got>>

Call(c) ==
  /\ c \notin called
  /\ called' = called \cup {c}
  /\ late' = [late EXCEPT ![c] = quit]
  /\ got' = [got EXCEPT ![c] = NULL]
  /\ UNCHANGED <<fifo, unread, quit>>

Deliver(c) ==
  /\ c \in called
  /\ ~late[c]
  /\ fifo # <<>>
  /\ got' = [got EXCEPT ![c] = Head(fifo)]
  /\ fifo' = Tail(fifo)
  /\ called' = called \ {c}
  /\ UNCHANGED <<unread, quit, late>>

(* get returns 0 (nothing there, not asked to block) or -1 (quit). *)
Refuse(c) ==
  /\ c \in called
  /\ fifo = <<>> \/ quit
  /\ called' = called \ {c}
  /\ UNCHANGED <<fifo, unread, quit, late, got>>

SetQuit ==
  /\ ~quit
  /\ quit' = TRUE
  /\ UNCHANGED <<fifo, unread, called, late, got>>

Next ==
  \/ \E p \in Packets : Put(p) \/ Drop(p)
  \/ \E c \in Consumers : Call(c) \/ Deliver(c) \/ Refuse(c)
  \/ SetQuit

Spec == Init /\ [][Next]_vars

=============================================================================
