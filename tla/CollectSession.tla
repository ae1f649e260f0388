---------------------------- MODULE CollectSession ----------------------------
(***************************************************************************)
(* One collection session: main() of collector/cli_collect.py, running the    *)
(* generator of MultiReceiver in its own thread.                            *)
(*                                                                         *)
(* A signal raises an exception in the main thread, inside the generator too, *)
(* wherever the interpreter looks for one: at calls and at jumps back.  The   *)
(* statements between two such points are one step.  Status lines and the     *)
(* stimulus thread's packets are left out.                                  *)
(***************************************************************************)
EXTENDS MultiReceiver

CONSTANTS
  Tags,          \* what _sanitize_tag leaves of an address, letters and digits
  Tag,           \* and the tag it makes of a board's MAC address or of an IP
  HasDuration,   \* whether --duration was given
  MaxSignals     \* bound: SIGINTs and SIGTERMs

ASSUME DurationAssumption == HasDuration \in BOOLEAN
ASSUME SignalsAssumption  == MaxSignals \in Nat
ASSUME TagAssumption      == Tag \in [Boards \cup Keys -> Tags]
(* MAC addresses, all of one form, keep apart without their colons; IP         *)
(* addresses without their dots need not: 192.168.1.12 and 192.168.11.2.       *)
ASSUME MacTagsAssumption  == \A b, d \in Boards : Tag[b] = Tag[d] => b = d

VARIABLES
  mainPc,
  raising,           \* an exception is unwinding the generator
  fatal,             \* an exception waits for the finally block to end
  order, samples,    \* the keys of writers as created, and their samples
  dropped, last_seq, \* for the keys of writers; 0 in last_seq: no entry
  expired,           \* whether the duration is over
  signals,           \* signals that came
  saved, files       \* writers saved, and the files of the session

bookVars == <<order, samples, dropped, last_seq>>
saveVars == <<saved, files>>
sessVars == <<mainPc, raising, fatal, bookVars, expired, signals, saveVars>>
vars == <<recvVars, sessVars>>

Signal == {"INT", "TERM"}
Key(s) == made[s.conn].peer
Elems(s) == {s[i] : i \in 1..Len(s)}
key == Key(item)

Init ==
  /\ RecvInit
  /\ mainPc = "next" /\ raising = FALSE /\ fatal = FALSE
  /\ order = <<>> /\ samples = [k \in Keys |-> <<>>]
  /\ dropped = [k \in Keys |-> 0] /\ last_seq = [k \in Keys |-> 0]
  /\ expired = FALSE /\ signals = 0
  /\ saved = 0 /\ files = [n \in {} |-> <<>>]

-----------------------------------------------------------------------------
(* The loop over the receiver. *)

(* The generator runs inside next() and inside receiver.close(). *)
RunGenerator ==
  /\ mainPc \in {"next", "closing"}
  /\ Generator
  /\ UNCHANGED sessVars

Step(from, to) == mainPc = from /\ mainPc' = to

NextReturns ==
  /\ genPc = "yielded"
  /\ Step("next", IF key \in Elems(order) THEN "add" ELSE "newWriter")
  /\ UNCHANGED <<recvVars, raising, fatal, bookVars, expired, signals, saveVars>>

(* The generator has ended: with the exception that unwound it, or normally. *)
NextEnds ==
  /\ genPc = "closed"
  /\ Step("next", IF raising THEN "except" ELSE "finally")
  /\ raising' = FALSE
  /\ UNCHANGED <<recvVars, fatal, bookVars, expired, signals, saveVars>>

NewWriter ==
  /\ Step("newWriter", "add")
  /\ order' = Append(order, key)
  /\ UNCHANGED <<recvVars, raising, fatal, samples, dropped, last_seq,
                 expired, signals, saveVars>>

Add ==
  /\ Step("add", "count")
  /\ samples' = [samples EXCEPT ![key] = Append(@, item)]
  /\ UNCHANGED <<recvVars, raising, fatal, order, dropped, last_seq,
                 expired, signals, saveVars>>

(* Bug: the gap is one too large.                                            *)
CountOffByOne ==
  /\ Step("count", "duration")
  /\ dropped' = [dropped EXCEPT ![key] =
                   IF last_seq[key] # 0 /\ item.seq > last_seq[key]
                     THEN @ + (item.seq - last_seq[key]) ELSE @]
  /\ last_seq' = [last_seq EXCEPT ![key] = item.seq]
  /\ UNCHANGED <<recvVars, raising, fatal, order, samples, expired, signals, saveVars>>

(* A gap counts; a step backward only draws a warning. *)
Count ==
  /\ Step("count", "duration")
  /\ dropped' = [dropped EXCEPT ![key] =
                   IF last_seq[key] # 0 /\ item.seq > last_seq[key] + 1
                     THEN @ + (item.seq - last_seq[key] - 1) ELSE @]
  /\ last_seq' = [last_seq EXCEPT ![key] = item.seq]
  /\ UNCHANGED <<recvVars, raising, fatal, order, samples, expired, signals, saveVars>>

(* Only here, after a sample, is the duration looked at.                     *)
Continue ==
  /\ ~(HasDuration /\ expired)
  /\ Step("duration", "next")
  /\ GenResume
  /\ UNCHANGED <<raising, fatal, bookVars, expired, signals, saveVars>>

Break ==
  /\ HasDuration /\ expired
  /\ Step("duration", "finally")
  /\ UNCHANGED <<recvVars, raising, fatal, bookVars, expired, signals, saveVars>>

-----------------------------------------------------------------------------
(* except and finally *)

Except ==
  /\ Step("except", "finally")
  /\ UNCHANGED <<recvVars, raising, fatal, bookVars, expired, signals, saveVars>>

SetStopEvent ==
  /\ Step("finally", "closing")
  /\ SetStop
  /\ UNCHANGED <<raising, fatal, bookVars, expired, signals, saveVars>>

CloseReceiver ==
  /\ mainPc = "closing"
  /\ genPc = "yielded"
  /\ GenUnwind
  /\ UNCHANGED sessVars

JoinStimulus ==
  /\ genPc = "closed"
  /\ Step("closing", "stimulus")
  /\ UNCHANGED <<recvVars, raising, fatal, bookVars, expired, signals, saveVars>>

LeaveFinally ==
  /\ Step("stimulus", IF fatal THEN "dead" ELSE "check")
  /\ UNCHANGED <<recvVars, raising, fatal, bookVars, expired, signals, saveVars>>

-----------------------------------------------------------------------------
(* Saving *)

CheckWriters ==
  /\ Step("check", IF order = <<>> THEN "manifest" ELSE "ignoreInt")
  /\ UNCHANGED <<recvVars, raising, fatal, bookVars, expired, signals, saveVars>>

IgnoreSignals ==
  /\ Step("ignoreInt", "ignoreTerm") \/ Step("ignoreTerm", "saving")
  /\ UNCHANGED <<recvVars, raising, fatal, bookVars, expired, signals, saveVars>>

(* The tag of a writer's board is made of the MAC address that answers for     *)
(* its IP, or of the IP itself when none does.                                *)
MacTags(k) == {Tag[made[c].board] : c \in {d \in 1..Len(made) : made[d].peer = k}}
BoardTag(k) == {Tag[k]} \cup MacTags(k)

(* Bug: boards of one session share one file name.                          *)
FileNamesUntagged(k) == {"untagged"}

FileNames(k) == IF Len(order) = 1 THEN {"untagged"} ELSE BoardTag(k)

SaveBoard ==
  /\ mainPc = "saving"
  /\ saved < Len(order)
  /\ LET k == order[saved + 1] IN \E n \in FileNames(k) :
       files' = [m \in DOMAIN files \cup {n} |-> IF m = n THEN samples[k] ELSE files[m]]
  /\ saved' = saved + 1
  /\ UNCHANGED <<recvVars, mainPc, raising, fatal, bookVars, expired, signals>>

AllSaved ==
  /\ saved = Len(order)
  /\ Step("saving", "manifest")
  /\ UNCHANGED <<recvVars, raising, fatal, bookVars, expired, signals, saveVars>>

Manifest ==
  /\ Step("manifest", "ended")
  /\ UNCHANGED <<recvVars, raising, fatal, bookVars, expired, signals, saveVars>>

-----------------------------------------------------------------------------
(* Signals: what the exception does where it finds the main thread. *)

Body == {"newWriter", "add", "count", "duration"}
Ended == mainPc \in {"ended", "dead"}

(* Bug: an interrupt in the loop body is not caught.                         *)
InterruptBodyUncaught ==
  /\ mainPc \in Body \/ (mainPc = "next" /\ genPc \in {"yielded", "closed"})
  /\ mainPc' = "finally"
  /\ fatal' = TRUE
  /\ UNCHANGED <<recvVars, raising>>

InterruptBody ==
  /\ mainPc \in Body \/ (mainPc = "next" /\ genPc \in {"yielded", "closed"})
  /\ mainPc' = "except"
  /\ UNCHANGED <<recvVars, raising, fatal>>

(* Bug: the generator swallows the exception and goes on.                    *)
InterruptGeneratorSwallowed ==
  /\ mainPc = "next" /\ genPc \notin {"yielded", "closed"}
  /\ UNCHANGED <<recvVars, mainPc, raising, fatal>>

InterruptGenerator ==
  /\ mainPc = "next" /\ genPc \notin {"yielded", "closed"}
  /\ GenUnwind \/ GenAbort
  /\ raising' = TRUE
  /\ UNCHANGED <<mainPc, fatal>>

InterruptExcept ==
  /\ Step("except", "finally")
  /\ fatal' = TRUE
  /\ UNCHANGED <<recvVars, raising>>

(* Until the handlers are set to SIG_IGN nothing catches the exception.      *)
InterruptStopping(s) ==
  /\ \/ mainPc \in {"finally", "closing", "stimulus", "check", "ignoreInt"}
     \/ (mainPc = "ignoreTerm" /\ s = "TERM")
     \/ (mainPc = "manifest" /\ order = <<>>)
  /\ mainPc' = "dead"
  /\ UNCHANGED <<recvVars, raising, fatal>>

Interrupt(s) ==
  /\ signals < MaxSignals
  /\ signals' = signals + 1
  /\ InterruptBody \/ InterruptGenerator \/ InterruptExcept \/ InterruptStopping(s)
  /\ UNCHANGED <<bookVars, expired, saveVars>>

Expire ==
  /\ HasDuration /\ ~expired
  /\ expired' = TRUE
  /\ UNCHANGED <<recvVars, mainPc, raising, fatal, bookVars, signals, saveVars>>

-----------------------------------------------------------------------------
Main ==
  \/ RunGenerator \/ NextReturns \/ NextEnds
  \/ NewWriter \/ Add \/ Count \/ Continue \/ Break
  \/ Except \/ SetStopEvent \/ CloseReceiver \/ JoinStimulus \/ LeaveFinally
  \/ CheckWriters \/ IgnoreSignals \/ SaveBoard \/ AllSaved \/ Manifest

(* The handlers are daemon threads: they end with the process.               *)
Handlers == \E c \in Conns : ~Ended /\ Handler(c) /\ UNCHANGED sessVars
Outside == ~Ended /\ Network /\ UNCHANGED sessVars

Next == Main \/ Handlers \/ Outside \/ Expire \/ (\E s \in Signal : Interrupt(s))

(* The threads are scheduled and the clock runs; boards and signals come as  *)
(* they like.                                                               *)
Spec ==
  /\ Init /\ [][Next]_vars
  /\ WF_vars(Main) /\ WF_vars(Expire)
  /\ \A c \in Conns : WF_vars(~Ended /\ Handler(c) /\ UNCHANGED sessVars)

-----------------------------------------------------------------------------
(* Every variable keeps its type.                                            *)
TypeOK ==
  /\ link \in [Boards -> 0..MaxConns] /\ nextSeq \in [Boards -> 1..(MaxSeq + 1)]
  /\ Len(made) <= MaxConns /\ Elems(made) \subseteq [board : Boards, peer : Keys]
  /\ \A c \in Conns : /\ Elems(carried[c]) \subseteq Sample
                      /\ Elems(chunk[c]) \subseteq Sample
                      /\ got[c] \in 0..Len(carried[c])
  /\ end \in [Conns -> {"open", "ended", "silent"}]
  /\ hPc \in [Conns -> {"none", "check", "recv", "put", "done"}]
  /\ Elems(backlog) \cup Elems(threads) \subseteq 1..Len(made)
  /\ Elems(out_q) \subseteq Sample /\ item \in Sample \cup {NoItem}
  /\ genPc \in {"top", "accept", "drain", "yielded", "close", "join", "closed"}
  /\ joined \in 0..Len(threads) /\ {listening, stop, raising, fatal, expired} \subseteq BOOLEAN
  /\ mainPc \in Body \cup {"next", "except", "finally", "closing", "stimulus", "check",
                           "ignoreInt", "ignoreTerm", "saving", "manifest", "ended", "dead"}
  /\ Elems(order) \subseteq Keys
  /\ \A k \in Keys : Elems(samples[k]) \subseteq Sample
  /\ dropped \in [Keys -> Nat] /\ last_seq \in [Keys -> 0..MaxSeq]
  /\ signals \in 0..MaxSignals /\ saved \in 0..Len(order)

(* Between a connection's socket and the files nothing is lost, repeated or   *)
(* reordered: what the handler read of a connection is, in this order, what   *)
(* its writer holds, the sample in the main thread's hand, what waits in      *)
(* out_q and what the handler has not put yet.  So a stop at any point loses  *)
(* only those last three.                                                    *)
Of(s, c) ==
  LET f[n \in 0..Len(s)] ==
        IF n = 0 THEN <<>> ELSE IF s[n].conn = c THEN Append(f[n - 1], s[n]) ELSE f[n - 1]
  IN  f[Len(s)]
InHand == IF item = NoItem \/ item \in Elems(samples[key])
            THEN <<>> ELSE <<item>>
Held(c) == Of(samples[made[c].peer], c) \o Of(InHand, c) \o Of(out_q, c) \o chunk[c]
NothingLostInside ==
  \A c \in 1..Len(made) : Held(c) = SubSeq(carried[c], 1, got[c])

(* At every step of the threads the state is well-formed and no connection    *)
(* has lost, doubled or reordered a sample inside the laptop.                 *)
StreamIntact == TypeOK /\ NothingLostInside

(* For a key that only one connection ever had, dropped is the number of      *)
(* sequence numbers missing between its first sample and its last.           *)
Missing(k) == samples[k][Len(samples[k])].seq - samples[k][1].seq + 1 - Len(samples[k])
OneConnection(k) == Cardinality({c \in Elems(threads) : made[c].peer = k}) = 1
DroppedExact(k) == mainPc \in {"next", "duration"} => dropped[k] = Missing(k)
DropsAreGaps == \A k \in Elems(order) : (OneConnection(k) /\ samples[k] # <<>>) => DroppedExact(k)

(* At a normal end every writer's samples are in a file, unless a later        *)
(* writer of the session could get the same tag, which then replaces it.  That  *)
(* takes one board under two addresses, two addresses that differ in their     *)
(* dots only, or a MAC address that reads like an IP address without its dots:  *)
(* nothing else loses a board's session, and never the last writer with a tag.  *)
HasFile(k) == \E n \in DOMAIN files : files[n] = samples[k]
OneBoard(k, l) == \E c, d \in 1..Len(made) :
  made[c].peer = k /\ made[d].peer = l /\ made[c].board = made[d].board
AlikeTags(k, l) == Tag[k] = Tag[l] \/ Tag[k] \in MacTags(l) \/ Tag[l] \in MacTags(k)
MayShare(k, l) == OneBoard(k, l) \/ AlikeTags(k, l)
EverythingSaved ==
  mainPc = "ended" =>
    \A i \in 1..Len(order) :
      HasFile(order[i]) \/ \E j \in (i + 1)..Len(order) : MayShare(order[i], order[j])

(* One interrupt while samples are collected never costs the session, at     *)
(* whatever step of the loop, the generator or a handler it comes: the        *)
(* process saves what it has.  (Without --duration: see below.)              *)
OneInterruptSaves ==
  (~HasDuration /\ signals <= 1) =>
    /\ mainPc # "dead"
    /\ mainPc = "ended" => saved = Len(order)

(* The first interrupt ends the session, whatever the boards do.             *)
InterruptEnds == (signals > 0) ~> Ended

-----------------------------------------------------------------------------
(* What the comments of cli_collect.py and session_writer.py say. *)

(* "Ctrl+C (SIGINT) or `kill <pid>` (SIGTERM) both stop collection and write  *)
(* out whatever was captured so far -- neither loses the session": here with  *)
(* a single signal, which may come when the duration has just ended it.      *)
NeitherLosesSession == mainPc = "dead" => order = <<>>

=============================================================================
