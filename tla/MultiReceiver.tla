----------------------------- MODULE MultiReceiver ----------------------------
(***************************************************************************)
(* The laptop's TCP server for several boards: iter_multi_samples and        *)
(* _handle_connection of collector/transport_tcp.py.                        *)
(*                                                                         *)
(* One thread per connection takes chunks from its socket, frames them and   *)
(* puts each sample, tagged with the peer's IP, into out_q; a generator, run *)
(* by its caller's thread, accepts connections and yields what it finds in   *)
(* out_q.  Boards and the network are external: a board has one connection   *)
(* at a time, may lose frames, and may reconnect, from another IP too, while *)
(* the laptop still holds unread bytes of the old connection.               *)
(***************************************************************************)
EXTENDS Naturals, Sequences, FiniteSets

CONSTANTS
  Boards,      \* the boards that dial in
  Keys,        \* the IP addresses they can have
  MaxSeq,      \* bound: frames a board numbers
  MaxConns,    \* bound: connections
  MaxChunk     \* bound: frames one recv() can complete

ASSUME BoardsAssumption == Boards # {} /\ Keys # {}
ASSUME BoundsAssumption == MaxSeq \in Nat /\ MaxConns \in Nat /\ MaxChunk \in Nat \ {0}

Conns == 1..MaxConns

VARIABLES
  link, nextSeq,          \* a board's connection (0: none), its next frame's number
  made,                   \* the connections made, each with its board and IP
  carried, got, end,      \* frames each carried, how many were read, how it ended
  listening, backlog,     \* the server socket, connections not yet accepted
  hPc, chunk,             \* the handler threads and the frames each has in hand
  threads,                \* the handlers in the order they were started
  out_q,                  \* the shared queue
  genPc, item, joined,    \* the generator, what it yields, threads it joined
  stop                    \* stop_event

netVars == <<link, nextSeq, made, carried, end>>
genVars == <<listening, backlog, threads, genPc, item, joined>>
recvVars == <<netVars, got, hPc, chunk, out_q, genVars, stop>>

Sample == [conn : Conns, seq : 1..MaxSeq]
NoItem == [conn |-> 0, seq |-> 0]

RecvInit ==
  /\ link = [b \in Boards |-> 0] /\ nextSeq = [b \in Boards |-> 1]
  /\ made = <<>>
  /\ carried = [c \in Conns |-> <<>>] /\ got = [c \in Conns |-> 0]
  /\ end = [c \in Conns |-> "open"]
  /\ listening = TRUE /\ backlog = <<>>
  /\ hPc = [c \in Conns |-> "none"] /\ chunk = [c \in Conns |-> <<>>]
  /\ threads = <<>> /\ out_q = <<>>
  /\ genPc = "top" /\ item = NoItem /\ joined = 0
  /\ stop = FALSE

-----------------------------------------------------------------------------
(* Boards and network. *)

BoardConnects(b, k) ==
  /\ listening
  /\ link[b] = 0
  /\ Len(made) < MaxConns
  /\ made' = Append(made, [board |-> b, peer |-> k])
  /\ link' = [link EXCEPT ![b] = Len(made) + 1]
  /\ backlog' = Append(backlog, Len(made) + 1)
  /\ UNCHANGED <<nextSeq, carried, end, got, hPc, chunk, out_q, stop,
                 listening, threads, genPc, item, joined>>

BoardSends(b) ==
  /\ link[b] # 0
  /\ nextSeq[b] <= MaxSeq
  /\ carried' = [carried EXCEPT ![link[b]] =
                   Append(@, [conn |-> link[b], seq |-> nextSeq[b]])]
  /\ nextSeq' = [nextSeq EXCEPT ![b] = @ + 1]
  /\ UNCHANGED <<link, made, end, got, hPc, chunk, out_q, genVars, stop>>

(* A captured frame that the board drops. *)
BoardDrops(b) ==
  /\ nextSeq[b] <= MaxSeq
  /\ nextSeq' = [nextSeq EXCEPT ![b] = @ + 1]
  /\ UNCHANGED <<link, made, carried, end, got, hPc, chunk, out_q, genVars, stop>>

(* The board gives its connection up; bytes under way may be lost, and the   *)
(* laptop may or may not hear of it.                                        *)
LinkBreaks(b) ==
  /\ link[b] # 0
  /\ \E n \in got[link[b]]..Len(carried[link[b]]) :
       carried' = [carried EXCEPT ![link[b]] = SubSeq(@, 1, n)]
  /\ \E e \in {"ended", "silent"} : end' = [end EXCEPT ![link[b]] = e]
  /\ link' = [link EXCEPT ![b] = 0]
  /\ UNCHANGED <<nextSeq, made, got, hPc, chunk, out_q, genVars, stop>>

Network ==
  \E b \in Boards :
    (\E k \in Keys : BoardConnects(b, k)) \/ BoardSends(b) \/ BoardDrops(b) \/ LinkBreaks(b)

-----------------------------------------------------------------------------
(* _handle_connection *)

HandlerCheck(c) ==
  /\ hPc[c] = "check"
  /\ hPc' = [hPc EXCEPT ![c] = IF stop THEN "done" ELSE "recv"]
  /\ UNCHANGED <<netVars, got, chunk, out_q, genVars, stop>>

HandlerRecv(c) ==
  /\ hPc[c] = "recv"
  /\ \E n \in 1..MaxChunk :
       /\ got[c] + n <= Len(carried[c])
       /\ chunk' = [chunk EXCEPT ![c] = SubSeq(carried[c], got[c] + 1, got[c] + n)]
       /\ got' = [got EXCEPT ![c] = @ + n]
  /\ hPc' = [hPc EXCEPT ![c] = "put"]
  /\ UNCHANGED <<netVars, out_q, genVars, stop>>

NothingToRead(c) == got[c] = Len(carried[c])

HandlerTimeout(c) ==
  /\ hPc[c] = "recv"
  /\ NothingToRead(c) /\ end[c] # "ended"
  /\ hPc' = [hPc EXCEPT ![c] = "check"]
  /\ UNCHANGED <<netVars, got, chunk, out_q, genVars, stop>>

HandlerEof(c) ==
  /\ hPc[c] = "recv"
  /\ NothingToRead(c) /\ end[c] = "ended"
  /\ hPc' = [hPc EXCEPT ![c] = "done"]
  /\ UNCHANGED <<netVars, got, chunk, out_q, genVars, stop>>

(* Bug: the samples of a chunk are put last first.                           *)
HandlerPutLast(c) ==
  /\ hPc[c] = "put"
  /\ out_q' = Append(out_q, chunk[c][Len(chunk[c])])
  /\ chunk' = [chunk EXCEPT ![c] = SubSeq(@, 1, Len(@) - 1)]
  /\ hPc' = [hPc EXCEPT ![c] = IF Len(chunk[c]) = 1 THEN "check" ELSE "put"]
  /\ UNCHANGED <<netVars, got, genVars, stop>>

HandlerPut(c) ==
  /\ hPc[c] = "put"
  /\ out_q' = Append(out_q, Head(chunk[c]))
  /\ chunk' = [chunk EXCEPT ![c] = Tail(@)]
  /\ hPc' = [hPc EXCEPT ![c] = IF Len(chunk[c]) = 1 THEN "check" ELSE "put"]
  /\ UNCHANGED <<netVars, got, genVars, stop>>

Handler(c) ==
  HandlerCheck(c) \/ HandlerRecv(c) \/ HandlerTimeout(c) \/ HandlerEof(c) \/ HandlerPut(c)

-----------------------------------------------------------------------------
(* iter_multi_samples *)

GenCheck ==
  /\ genPc = "top"
  /\ genPc' = IF stop THEN "close" ELSE "accept"
  /\ UNCHANGED <<netVars, got, hPc, chunk, out_q, stop, listening, backlog, threads, item, joined>>

GenAccept ==
  /\ genPc = "accept"
  /\ backlog # <<>>
  /\ backlog' = Tail(backlog)
  /\ hPc' = [hPc EXCEPT ![Head(backlog)] = "check"]
  /\ threads' = Append(threads, Head(backlog))
  /\ genPc' = "drain"
  /\ UNCHANGED <<netVars, got, chunk, out_q, stop, listening, item, joined>>

GenAcceptTimeout ==
  /\ genPc = "accept"
  /\ backlog = <<>>
  /\ genPc' = "drain"
  /\ UNCHANGED <<netVars, got, hPc, chunk, out_q, stop, listening, backlog, threads, item, joined>>

GenGet ==
  /\ genPc = "drain"
  /\ out_q # <<>>
  /\ item' = Head(out_q)
  /\ out_q' = Tail(out_q)
  /\ genPc' = "yielded"
  /\ UNCHANGED <<netVars, got, hPc, chunk, stop, listening, backlog, threads, joined>>

GenEmpty ==
  /\ genPc = "drain"
  /\ out_q = <<>>
  /\ genPc' = "top"
  /\ UNCHANGED <<netVars, got, hPc, chunk, out_q, stop, listening, backlog, threads, item, joined>>

(* finally: the server is closed, which resets the connections nobody        *)
(* accepted, and each thread is joined for at most two seconds.              *)
GenClose ==
  /\ genPc = "close"
  /\ listening' = FALSE
  /\ backlog' = <<>>
  /\ genPc' = "join"
  /\ UNCHANGED <<netVars, got, hPc, chunk, out_q, stop, threads, item, joined>>

GenJoin ==
  /\ genPc = "join"
  /\ joined < Len(threads)
  /\ joined' = joined + 1
  /\ UNCHANGED <<netVars, got, hPc, chunk, out_q, stop, listening, backlog, threads, genPc, item>>

GenDone ==
  /\ genPc = "join"
  /\ joined = Len(threads)
  /\ genPc' = "closed"
  /\ UNCHANGED <<netVars, got, hPc, chunk, out_q, stop, listening, backlog, threads, item, joined>>

Generator == GenCheck \/ GenAccept \/ GenAcceptTimeout \/ GenGet \/ GenEmpty
               \/ GenClose \/ GenJoin \/ GenDone

(* What the caller of the generator does to it. *)

(* next(): the sample that was yielded has been dealt with. *)
GenResume ==
  /\ genPc = "yielded"
  /\ item' = NoItem
  /\ genPc' = "drain"
  /\ UNCHANGED <<netVars, got, hPc, chunk, out_q, stop, listening, backlog, threads, joined>>

(* close() at a yield, or an exception raised inside, runs its finally.      *)
GenUnwind ==
  /\ genPc \in {"top", "accept", "drain", "yielded"}
  /\ genPc' = "close"
  /\ UNCHANGED <<netVars, got, hPc, chunk, out_q, stop, listening, backlog, threads, item, joined>>

(* An exception raised inside its finally ends it there. *)
GenAbort ==
  /\ genPc \in {"close", "join"}
  /\ genPc' = "closed"
  /\ listening' = FALSE
  /\ backlog' = <<>>
  /\ UNCHANGED <<netVars, got, hPc, chunk, out_q, stop, threads, item, joined>>

SetStop ==
  /\ stop' = TRUE
  /\ UNCHANGED <<netVars, got, hPc, chunk, out_q, genVars>>
=============================================================================
