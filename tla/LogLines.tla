------------------------------- MODULE LogLines -------------------------------
(***************************************************************************)
(* The Cloud Logging path up to stdout: the record methods of the Go, Rust *)
(* and Python loggers and the loops that call them.  All three build a     *)
(* ping, wrap it in an envelope and print it as one line; they differ in   *)
(* how the line gets out and in what a failure does.  A line of stdout is  *)
(* what the agent behind it reads up to a newline: the texts written since *)
(* the last one.  Callers are the goroutines of a Go server that share one *)
(* Writer; the other two programs record from main alone.                  *)
(***************************************************************************)
EXTENDS Naturals, Sequences, FiniteSets

CONSTANTS
  Callers,     \* the goroutines that record
  Main,        \* the one that runs main
  MaxPasses    \* bound on the passes of each caller's loop

ASSUME LogAssumption ==
  Main \in Callers /\ IsFiniteSet(Callers) /\ MaxPasses \in Nat \ {0}

VARIABLES
  language,    \* which of the three programs runs
  pc,          \* control point of each caller
  passes,      \* passes of each caller's loop begun
  lines,       \* the lines of stdout ended by a newline
  open,        \* the texts written since the last newline
  failures,    \* writes that failed
  returned,    \* pings whose record returned without an error
  refused,     \* pings whose record returned an error
  dead         \* the process has ended

outVars  == <<lines, open, failures>>
callVars == <<pc, passes, returned, refused, dead>>
vars     == <<language, callVars, outVars>>

Languages == {"go", "rust", "python"}
PCs == {"idle", "record", "envelope", "write", "end", "other", "otherEnd"}

(* A text is a ping or a line of the program's own, whole or cut short. *)
Ids   == Callers \X (1 .. MaxPasses) \X {"ping", "other"}
Texts == [id : Ids, whole : BOOLEAN]

ping(c)   == <<c, passes[c], "ping">>
other(c)  == <<c, passes[c], "other">>
Whole(id) == [id |-> id, whole |-> TRUE]
Part(id)  == [id |-> id, whole |-> FALSE]

Init ==
  /\ language \in Languages
  /\ pc = [c \in Callers |-> "idle"]
  /\ passes = [c \in Callers |-> 0]
  /\ lines = {} /\ open = <<>> /\ failures = 0
  /\ returned = {} /\ refused = {}
  /\ dead = FALSE

At(c, lang, l) == language = lang /\ pc[c] = l /\ UNCHANGED language
Goto(c, l)     == pc' = [pc EXCEPT ![c] = l]

(* Control moves on; nothing else of the calls changes. *)
Continue(c, l) == Goto(c, l) /\ UNCHANGED <<passes, returned, refused, dead>>

(* record returns without an error. *)
Succeed(c, l) ==
  /\ returned' = returned \cup {ping(c)}
  /\ Goto(c, l)
  /\ UNCHANGED <<passes, refused, dead>>

(* A panic or an exception that nothing catches, or a signal. *)
Die == dead' = TRUE /\ UNCHANGED <<pc, passes, returned, refused>>

NextPass(c, l) ==
  /\ passes[c] < MaxPasses
  /\ passes' = [passes EXCEPT ![c] = @ + 1]
  /\ Goto(c, l)
  /\ UNCHANGED <<returned, refused, dead, outVars>>

-----------------------------------------------------------------------------
(* What a write does to stdout.                                            *)

Text(id)  == open' = Append(open, Whole(id)) /\ UNCHANGED <<lines, failures>>
Newline   == lines' = lines \cup {open} /\ open' = <<>> /\ UNCHANGED failures

(* Text and newline in one write. *)
PrintLine(id) ==
  /\ lines' = lines \cup {Append(open, Whole(id))}
  /\ open' = <<>>
  /\ UNCHANGED failures

(* The write fails, with nothing or some of the text written. *)
WriteFails(id) ==
  /\ failures' = failures + 1
  /\ open' \in {open, Append(open, Part(id))}
  /\ UNCHANGED lines

-----------------------------------------------------------------------------
(* Go: errors are returned, except the one of the write.                   *)

GoEvent(c) == At(c, "go", "idle") /\ NextPass(c, "record")

(* Faulty variant: the error is noted and record goes on. *)
Refuse_Continues(c) ==
  /\ refused' = refused \cup {ping(c)}
  /\ Goto(c, "write")
  /\ UNCHANGED <<passes, returned, dead, outVars>>

(* record returns an error, and RecordEventsPing with it. *)
Refuse(c) ==
  /\ refused' = refused \cup {ping(c)}
  /\ Goto(c, "other")
  /\ UNCHANGED <<passes, returned, dead, outVars>>

(* The Writer is nil, or marshalling the payload or the UUID fails. *)
GoPing(c) ==
  /\ At(c, "go", "record")
  /\ Refuse(c) \/ (Continue(c, "envelope") /\ UNCHANGED outVars)

(* The envelope is marshalled, or is not. *)
GoEnvelope(c) ==
  /\ At(c, "go", "envelope")
  /\ Refuse(c) \/ (Continue(c, "write") /\ UNCHANGED outVars)

(* Faulty variant: Fprint in place of Fprintln. *)
GoWrite_NoNewline(c) ==
  /\ At(c, "go", "write")
  /\ Text(ping(c)) \/ WriteFails(ping(c))
  /\ Succeed(c, "other")

(* One write for text and newline, whose error is dropped: record returns
   nil either way. *)
GoWrite(c) ==
  /\ At(c, "go", "write")
  /\ PrintLine(ping(c)) \/ WriteFails(ping(c))
  /\ Succeed(c, "other")

(* The loop goes on to print a line that the decoder will reject. *)
GoMain(c) ==
  /\ At(c, "go", "other")
  /\ PrintLine(other(c)) \/ WriteFails(other(c))
  /\ Continue(c, "idle")

-----------------------------------------------------------------------------
(* Rust: a failure is a panic of the main thread, the end of the process.  *)

RustEvent(c) == At(c, "rust", "idle") /\ NextPass(c, "record")

(* The two calls of expect, before anything is printed. *)
RustPing(c) ==
  /\ At(c, "rust", "record")
  /\ Continue(c, "write") \/ Die
  /\ UNCHANGED outVars

(* Faulty variant: the error of the print is dropped. *)
RustPrint_Ignored(c) ==
  /\ At(c, "rust", "write")
  /\ PrintLine(ping(c)) \/ WriteFails(ping(c))
  /\ Succeed(c, "idle")

(* println!: the line buffer of stdout lets a short line out with its
   newline, and writes a longer one ahead of it. *)
RustPrint(c) ==
  \/ /\ At(c, "rust", "write")
     /\ \/ PrintLine(ping(c)) /\ Succeed(c, "idle")
        \/ Text(ping(c)) /\ Continue(c, "end")
        \/ WriteFails(ping(c)) /\ Die
  \/ /\ At(c, "rust", "end")
     /\ (Newline /\ Succeed(c, "idle")) \/ (Die /\ UNCHANGED outVars)

-----------------------------------------------------------------------------
(* Python: run unbuffered, print writes the text and the newline apart; an *)
(* exception ends the loop of main, and with it the process.               *)

PyEvent(c) == At(c, "python", "idle") /\ NextPass(c, "other")

(* main.py's own line. *)
PyMain(c) ==
  \/ /\ At(c, "python", "other")
     /\ \/ Text(other(c)) /\ Continue(c, "otherEnd")
        \/ WriteFails(other(c)) /\ Die
  \/ /\ At(c, "python", "otherEnd")
     /\ (Newline /\ Continue(c, "record")) \/ (Die /\ UNCHANGED outVars)

(* _record, of which json.dumps may raise. *)
PyRecord(c) ==
  /\ At(c, "python", "record")
  /\ Continue(c, "write") \/ Die
  /\ UNCHANGED outVars

(* emit_record. *)
PyEmit(c) ==
  \/ /\ At(c, "python", "write")
     /\ \/ Text(ping(c)) /\ Continue(c, "end")
        \/ WriteFails(ping(c)) /\ Die
  \/ /\ At(c, "python", "end")
     /\ (Newline /\ Succeed(c, "idle")) \/ (Die /\ UNCHANGED outVars)

-----------------------------------------------------------------------------

GoStep(c) == GoEvent(c) \/ GoPing(c) \/ GoEnvelope(c) \/ GoWrite(c) \/ GoMain(c)
RustStep(c) == RustEvent(c) \/ RustPing(c) \/ RustPrint(c)
PyStep(c)   == PyEvent(c) \/ PyMain(c) \/ PyRecord(c) \/ PyEmit(c)

(* SIGTERM, which none of the three programs handles. *)
Killed == Die /\ UNCHANGED <<language, outVars>>

Terminated == dead /\ UNCHANGED vars

Next ==
  \/ /\ ~dead
     /\ (\E c \in Callers : GoStep(c)) \/ RustStep(Main) \/ PyStep(Main) \/ Killed
  \/ Terminated

Spec == Init /\ [][Next]_vars

-----------------------------------------------------------------------------
(* Properties.                                                             *)

(* The type invariant; a ping is told one result at most. *)
TypeOK ==
  /\ language \in Languages
  /\ pc \in [Callers -> PCs]
  /\ passes \in [Callers -> 0 .. MaxPasses]
  /\ lines \subseteq Seq(Texts) /\ open \in Seq(Texts)
  /\ failures \in Nat
  /\ returned \subseteq Ids /\ refused \subseteq Ids \ returned
  /\ dead \in BOOLEAN

(* The pings that have a line of their own, all a decoder can use. *)
readable == {id \in Ids : <<Whole(id)>> \in lines}

texts == UNION {{l[i] : i \in DOMAIN l} : l \in lines \cup {open}}

(* An error of record means that nothing of the ping was written: a caller
   may record it again without a duplicate (test-go-logger
   server_events.go:151-176). *)
RefusedLeavesNothing == \A t \in texts : t.id \notin refused

(* Whoever records, in whatever order, a failed write spoils its own line
   and at most the one printed after it, which lands on the same line; the
   lines of concurrent callers do not run into each other, since each is
   one write (test-go-logger server_events.go:178). *)
LossBounded == Cardinality(returned \ readable) <= 2 * failures

(* In Rust and Python a record that returns has printed its line, whole and
   on a line of its own, whenever the process is killed after that
   (server_events.rs:194-196, server_events.py:91-99 under python -u). *)
ReturnedIsReadable == language # "go" => returned \subseteq readable

(* "construct the ping, wrap it in the envelope, and print to stdout"
   (test-go-logger server_events.go:144): a ping whose record returned nil
   has been printed.  It does not hold of the Go logger. *)
NilMeansPrinted == returned \subseteq readable
=============================================================================
