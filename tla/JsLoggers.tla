------------------------------- MODULE JsLoggers -------------------------------
(***************************************************************************)
(* The generated loggers of test-js-logger and test-ts-logger inside one   *)
(* Node process.  Each generated module keeps one mozlog logger in _logger *)
(* and makes it when its factory is first called; the two servers call the *)
(* factory on every tick of a timer.  mozlog is external: it keeps its     *)
(* loggers by name, and a logger configured twice prints every line twice. *)
(***************************************************************************)
EXTENDS Naturals

CONSTANTS
  Modules,       \* the generated modules the process has loaded
  Apps,          \* values of logger_options.app, without any '-glean'
  Objects,       \* options objects that a caller keeps and passes again
  MaxInstances,  \* bound on the instances made of a module
  MaxSuffixes    \* bound on the times '-glean' is appended to a name

ASSUME JsAssumption ==
  MaxInstances \in Nat \ {0} /\ MaxSuffixes \in Nat \ {0}

VARIABLES
  kept,       \* the app of each options object that a caller keeps
  logger,     \* _logger of each module: a set, empty while it is undefined
  handlers,   \* external: handlers mozlog has for each logger name
  ownLog,     \* the names of the server's own mozlog loggers
  instances,  \* how many instances of each module have been made
  emitted     \* what the records have printed

vars == <<kept, logger, handlers, ownLog, instances, emitted>>

(* A name is an app and the number of times '-glean' is appended to it; what
   a caller passes, or has named its own logger, may end in '-glean'. *)
LoggerNames == Apps \X (0 .. MaxSuffixes)

(* Options are a name and the object that holds it, none for a literal. *)
Loggers   == [name : LoggerNames, from : SUBSET Objects]
Emissions == [module : Modules, lines : Nat]

(* app.js has made its own logger before the first tick, index.ts has none. *)
Init ==
  /\ kept \in [Objects -> LoggerNames]
  /\ logger = [m \in Modules |-> {}]
  /\ ownLog \in SUBSET LoggerNames
  /\ handlers = [n \in LoggerNames |-> IF n \in ownLog THEN 1 ELSE 0]
  /\ instances = [m \in Modules |-> 0]
  /\ emitted = {}

-----------------------------------------------------------------------------

(* Faulty variants: a logger for every instance; the test the wrong way
   round. *)
missing_Always(m) == TRUE
missing_Inverted(m) == logger[m] # {}

missing(m) == logger[m] = {}

(* logger_options.app + '-glean' *)
suffixed(n) == <<n[1], n[2] + 1>>

(* A literal, as in the two servers, or an object the caller keeps. *)
Options ==
  {[name |-> n, from |-> {}] : n \in LoggerNames} \cup
  {[name |-> kept[o], from |-> {o}] : o \in Objects}

(* Faulty variant: the constructor renames a copy of the options. *)
Rename_Copy(opt) == kept' = kept

(* The constructor assigns to the caller's own object. *)
Rename(opt) ==
  kept' = [o \in Objects |-> IF o \in opt.from THEN suffixed(opt.name) ELSE kept[o]]

(* The constructor: the first one makes the logger, under the new name. *)
Construct(m, opt) ==
  /\ instances[m] < MaxInstances
  /\ instances' = [instances EXCEPT ![m] = @ + 1]
  /\ IF missing(m)
     THEN LET name == suffixed(opt.name)
          IN  /\ name \in LoggerNames
              /\ Rename(opt)
              /\ logger' = [logger EXCEPT ![m] = {[name |-> name, from |-> opt.from]}]
              /\ handlers' = [handlers EXCEPT ![name] = @ + 1]
     ELSE UNCHANGED <<kept, logger, handlers>>
  /\ UNCHANGED <<ownLog, emitted>>

(* mozlog throws: the options have been renamed, and no instance exists. *)
ConstructFails(m, opt) ==
  /\ missing(m) /\ suffixed(opt.name) \in LoggerNames
  /\ Rename(opt)
  /\ UNCHANGED <<logger, handlers, ownLog, instances, emitted>>

(* An instance of module m records an event with the module's logger. *)
Record(m) ==
  /\ instances[m] > 0
  /\ \E l \in logger[m] :
       emitted' = emitted \cup {[module |-> m, lines |-> handlers[l.name]]}
  /\ UNCHANGED <<kept, logger, handlers, ownLog, instances>>

Next ==
  \E m \in Modules :
    \/ \E opt \in Options : Construct(m, opt) \/ ConstructFails(m, opt)
    \/ Record(m)

Spec == Init /\ [][Next]_vars

-----------------------------------------------------------------------------
(* Properties.                                                             *)

TypeOK ==
  /\ kept \in [Objects -> LoggerNames]
  /\ logger \in [Modules -> SUBSET Loggers]
  /\ handlers \in [LoggerNames -> Nat]
  /\ ownLog \subseteq LoggerNames
  /\ instances \in [Modules -> 0 .. MaxInstances]
  /\ \A m \in Modules : instances[m] > 0 <=> logger[m] # {}
  /\ emitted \subseteq Emissions

names(m) == {l.name : l \in logger[m]}

(* However often the factory is called, with whatever options, and whatever
   has failed before, a record is printed once.  The exceptions are that two
   modules have been given one name, or that the server's own logger already
   had the suffixed one; the suffix prevents neither (server_events.js:29-35,
   "append '-glean' to `logger_options.app` to avoid collision with other
   loggers and double logging"). *)
PrintedOnce ==
  \A e \in emitted :
    \/ e.lines = 1
    \/ names(e.module) \cap ownLog # {}
    \/ \E m \in Modules \ {e.module} : names(m) \cap names(e.module) # {}

(* Of the first exception one case cannot happen: modules that were given the
   same options object, and so the same name, end up on different ones, since
   the first constructor has renamed the object that the next one is given,
   also if its own call of mozlog failed (server_events.js:31-34). *)
ReusedOptionsStayApart ==
  \A m, p \in Modules : m # p =>
    \A l \in logger[m], k \in logger[p] :
      l.from \cap k.from # {} => l.name # k.name
=============================================================================
