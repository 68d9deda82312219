---------------------------- MODULE JsLoggersProofs ----------------------------
(***************************************************************************)
(* Proofs about JsLoggers for any number of generated modules, of options  *)
(* objects, of instances and of suffixes.                                  *)
(***************************************************************************)
EXTENDS JsLoggers, TLAPS

(* A module has one logger at most. *)
OneLogger == \A m \in Modules : \A l, k \in logger[m] : l = k

(* A name has a handler if the server or a module has taken it, and only one
   if nobody else has. *)
HandlersCounted ==
  /\ \A n \in LoggerNames \ ownLog :
       handlers[n] = 0 \/ \E m \in Modules : n \in names(m)
  /\ \A m \in Modules : \A n \in names(m) :
       handlers[n] = 1 \/ n \in ownLog \/ \E p \in Modules \ {m} : n \in names(p)

(* What was printed was printed by a module that has a logger. *)
Printers == \A e \in emitted : logger[e.module] # {}

(* The app of an object that a logger was made from has at least the suffixes
   of that logger's name. *)
Renamed ==
  \A m \in Modules : \A l \in logger[m] : \A o \in l.from :
    l.name[1] = kept[o][1] /\ l.name[2] <= kept[o][2]

Inv ==
  /\ TypeOK /\ OneLogger /\ HandlersCounted /\ Printers /\ Renamed
  /\ PrintedOnce /\ ReusedOptionsStayApart

LEMMA InitInv == Init => Inv
<1> SUFFICES ASSUME Init PROVE Inv
  OBVIOUS
<1>1. /\ \A m \in Modules : logger[m] = {} /\ names(m) = {} /\ instances[m] = 0
      /\ emitted = {}
  BY DEF Init, names
<1>2. TypeOK
  BY <1>1, JsAssumption DEF Init, TypeOK
<1>3. HandlersCounted
  BY <1>1 DEF Init, HandlersCounted
<1> QED
  BY <1>1, <1>2, <1>3
  DEF Inv, Printers, OneLogger, Renamed, PrintedOnce, ReusedOptionsStayApart

(* Appending a suffix that the bound allows gives a name, with one more. *)
LEMMA Suffixed ==
  ASSUME NEW n \in LoggerNames, suffixed(n) \in LoggerNames
  PROVE  /\ suffixed(n)[1] = n[1] /\ suffixed(n)[2] = n[2] + 1
         /\ n[2] \in Nat
BY DEF LoggerNames, suffixed

LEMMA OptionsType ==
  ASSUME TypeOK, NEW opt \in Options
  PROVE  /\ opt.name \in LoggerNames /\ opt.from \in SUBSET Objects
         /\ \A o \in opt.from : opt.name = kept[o]
BY DEF TypeOK, Options

(* The constructor renames the object it is given and no other, and the new
   name is beyond those that loggers made from it have. *)
LEMMA RenameStep ==
  ASSUME TypeOK, Renamed, NEW opt \in Options, Rename(opt), suffixed(opt.name) \in LoggerNames
  PROVE  /\ kept' \in [Objects -> LoggerNames]
         /\ \A o \in opt.from : kept'[o] = suffixed(opt.name)
         /\ \A m \in Modules : \A l \in logger[m] : \A o \in l.from :
              l.name[1] = kept'[o][1] /\ l.name[2] <= kept'[o][2]
         /\ \A m \in Modules : \A l \in logger[m] :
              l.from \cap opt.from # {} => l.name # suffixed(opt.name)
<1>1. /\ opt.name \in LoggerNames /\ opt.from \in SUBSET Objects
      /\ \A o \in opt.from : opt.name = kept[o]
  BY OptionsType
<1>2. /\ suffixed(opt.name)[1] = opt.name[1]
      /\ suffixed(opt.name)[2] = opt.name[2] + 1 /\ opt.name[2] \in Nat
  BY <1>1, Suffixed
<1>3. kept' = [o \in Objects |-> IF o \in opt.from THEN suffixed(opt.name) ELSE kept[o]]
  BY DEF Rename
<1>4. \A m \in Modules : \A l \in logger[m] :
        l.from \in SUBSET Objects /\ l.name \in LoggerNames /\ l.name[2] \in Nat
  BY DEF TypeOK, Loggers, LoggerNames
<1>5. kept' \in [Objects -> LoggerNames] /\ \A o \in opt.from : kept'[o] = suffixed(opt.name)
  BY <1>1, <1>3 DEF TypeOK
<1>6. ASSUME NEW m \in Modules, NEW l \in logger[m], NEW o \in l.from
      PROVE  l.name[1] = kept'[o][1] /\ l.name[2] <= kept'[o][2]
  <2>1. o \in Objects /\ l.name[1] = kept[o][1] /\ l.name[2] <= kept[o][2] /\ l.name[2] \in Nat
    BY <1>4, <1>6 DEF Renamed
  <2>2. CASE o \in opt.from
    BY <1>1, <1>2, <1>5, <2>1, <2>2
  <2>3. CASE o \notin opt.from
    BY <1>3, <2>1, <2>3
  <2> QED
    BY <2>2, <2>3
<1>7. ASSUME NEW m \in Modules, NEW l \in logger[m], NEW o \in l.from \cap opt.from
      PROVE  l.name # suffixed(opt.name)
  <2>1. l.name[2] <= opt.name[2] /\ l.name[2] \in Nat
    BY <1>1, <1>4, <1>7 DEF Renamed
  <2> QED
    BY <1>2, <2>1
<1> QED
  BY <1>5, <1>6, <1>7

(* The first instance of a module: its logger is made. *)
LEMMA StepFirst ==
  ASSUME Inv, NEW m \in Modules, NEW opt \in Options, Construct(m, opt), missing(m)
  PROVE  Inv'
<1> USE DEF Inv
<1> DEFINE name == suffixed(opt.name)
           new  == [name |-> name, from |-> opt.from]
<1>1. /\ instances' = [instances EXCEPT ![m] = @ + 1] /\ instances[m] < MaxInstances
      /\ name \in LoggerNames /\ Rename(opt)
      /\ logger' = [logger EXCEPT ![m] = {new}]
      /\ handlers' = [handlers EXCEPT ![name] = @ + 1]
      /\ UNCHANGED <<ownLog, emitted>>
  BY DEF Construct
<1>2. logger[m] = {} /\ opt.from \in SUBSET Objects
  BY OptionsType DEF missing
<1>3. /\ logger'[m] = {new} /\ names(m) = {}
      /\ \A q \in Modules \ {m} : logger'[q] = logger[q]
  BY <1>1, <1>2 DEF TypeOK, names
<1>4. /\ names(m)' = {name} /\ \A q \in Modules \ {m} : names(q)' = names(q)
  BY <1>3 DEF names
<1>5. /\ kept' \in [Objects -> LoggerNames]
      /\ \A o \in opt.from : kept'[o] = name
      /\ \A q \in Modules : \A l \in logger[q] : \A o \in l.from :
           l.name[1] = kept'[o][1] /\ l.name[2] <= kept'[o][2]
      /\ \A q \in Modules : \A l \in logger[q] : l.from \cap opt.from # {} => l.name # name
  BY <1>1, RenameStep
<1> HIDE DEF name
<1>6. TypeOK'
  <2>1. logger' \in [Modules -> SUBSET Loggers] /\ handlers' \in [LoggerNames -> Nat]
    BY <1>1, <1>2 DEF TypeOK, Loggers
  <2>2. instances' \in [Modules -> 0 .. MaxInstances]
    BY <1>1, JsAssumption DEF TypeOK
  <2>3. instances'[m] > 0 /\ \A q \in Modules \ {m} : instances'[q] = instances[q]
    BY <1>1 DEF TypeOK
  <2>4. \A q \in Modules : instances'[q] > 0 <=> logger'[q] # {}
    BY <1>3, <2>3 DEF TypeOK
  <2> QED
    BY <1>1, <1>5, <2>1, <2>2, <2>4 DEF TypeOK
<1>7. OneLogger' /\ Printers'
  <2>1. OneLogger'
    BY <1>3 DEF OneLogger
  <2>2. Printers'
    BY <1>1, <1>3 DEF Printers, TypeOK, Emissions
  <2> QED
    BY <2>1, <2>2
<1>8. /\ handlers'[name] = handlers[name] + 1 /\ handlers[name] \in Nat
      /\ \A n \in LoggerNames \ {name} : handlers'[n] = handlers[n]
  BY <1>1 DEF TypeOK
<1>9. \A q \in Modules : names(q) \subseteq LoggerNames
  BY DEF TypeOK, Loggers, names
<1>10. HandlersCounted'
  <2>1. ASSUME NEW n \in LoggerNames \ ownLog
        PROVE  handlers'[n] = 0 \/ \E q \in Modules : n \in names(q)'
    BY <1>3, <1>4, <1>8, <2>1 DEF HandlersCounted
  <2>2. ASSUME NEW q \in Modules, NEW n \in names(q)'
        PROVE  handlers'[n] = 1 \/ n \in ownLog \/ \E p \in Modules \ {q} : n \in names(p)'
    <3>1. CASE q = m
      BY <1>1, <1>3, <1>4, <1>8, <2>2, <3>1 DEF HandlersCounted
    <3>2. CASE q # m
      BY <1>3, <1>4, <1>8, <1>9, <2>2, <3>2 DEF HandlersCounted
    <3> QED
      BY <3>1, <3>2
  <2> QED
    BY <1>1, <2>1, <2>2 DEF HandlersCounted
<1>11. PrintedOnce'
  <2> SUFFICES ASSUME NEW e \in emitted, e.lines # 1
               PROVE  \/ names(e.module)' \cap ownLog # {}
                      \/ \E p \in Modules \ {e.module} : names(p)' \cap names(e.module)' # {}
    BY <1>1 DEF PrintedOnce
  <2>1. e.module \in Modules \ {m}
    BY <1>2 DEF Printers, TypeOK, Emissions
  <2> QED
    BY <1>3, <1>4, <2>1 DEF PrintedOnce
<1>12. Renamed'
  <2>1. ASSUME NEW q \in Modules, NEW l \in logger'[q], NEW o \in l.from
        PROVE  l.name[1] = kept'[o][1] /\ l.name[2] <= kept'[o][2]
    <3>1. CASE q = m
      <4>1. l.name = name /\ kept'[o] = name /\ name[2] \in Nat
        BY <1>1, <1>3, <1>5, <2>1, <3>1 DEF LoggerNames
      <4> QED
        BY <4>1
    <3>2. CASE q # m
      BY <1>3, <1>5, <2>1, <3>2
    <3> QED
      BY <3>1, <3>2
  <2> QED
    BY <2>1 DEF Renamed
<1>13. ReusedOptionsStayApart'
  <2>1. ASSUME NEW q \in Modules, NEW p \in Modules, q # p, NEW l \in logger'[q],
               NEW k \in logger'[p], l.from \cap k.from # {}
        PROVE  l.name # k.name
    <3>1. CASE q = m
      BY <1>3, <1>5, <2>1, <3>1
    <3>2. CASE p = m
      BY <1>3, <1>5, <2>1, <3>2
    <3>3. CASE q # m /\ p # m
      BY <1>3, <2>1, <3>3 DEF ReusedOptionsStayApart
    <3> QED
      BY <3>1, <3>2, <3>3
  <2> QED
    BY <2>1 DEF ReusedOptionsStayApart
<1> QED
  BY <1>6, <1>7, <1>10, <1>11, <1>12, <1>13

(* Nothing but the options and the number of instances changes. *)
LEMMA Unmoved ==
  ASSUME Inv, UNCHANGED <<logger, handlers, ownLog, emitted>>, TypeOK', Renamed'
  PROVE  Inv'
BY DEF Inv, OneLogger, HandlersCounted, Printers, PrintedOnce, ReusedOptionsStayApart, names

LEMMA StepLater ==
  ASSUME Inv, NEW m \in Modules, NEW opt \in Options, Construct(m, opt), ~missing(m)
  PROVE  Inv'
<1>1. /\ instances' = [instances EXCEPT ![m] = @ + 1] /\ instances[m] < MaxInstances
      /\ UNCHANGED <<kept, logger, handlers, ownLog, emitted>> /\ logger[m] # {}
  BY DEF Construct, missing
<1>2. TypeOK'
  BY <1>1, JsAssumption DEF Inv, TypeOK
<1>3. Renamed'
  BY <1>1 DEF Inv, Renamed
<1> QED
  BY <1>1, <1>2, <1>3, Unmoved

LEMMA StepFails ==
  ASSUME Inv, NEW m \in Modules, NEW opt \in Options, ConstructFails(m, opt)
  PROVE  Inv'
<1>1. UNCHANGED <<logger, handlers, ownLog, instances, emitted>>
  BY DEF ConstructFails
<1>2. /\ kept' \in [Objects -> LoggerNames]
      /\ \A q \in Modules : \A l \in logger[q] : \A o \in l.from :
           l.name[1] = kept'[o][1] /\ l.name[2] <= kept'[o][2]
  BY RenameStep DEF Inv, ConstructFails
<1>3. TypeOK' /\ Renamed'
  BY <1>1, <1>2 DEF Inv, TypeOK, Renamed
<1> QED
  BY <1>1, <1>3, Unmoved

(* A record prints what its module's logger prints. *)
LEMMA StepRecord ==
  ASSUME Inv, NEW m \in Modules, Record(m)
  PROVE  Inv'
<1> USE DEF Inv
<1>1. PICK l \in logger[m] :
        emitted' = emitted \cup {[module |-> m, lines |-> handlers[l.name]]}
  BY DEF Record
<1>2. UNCHANGED <<kept, logger, handlers, ownLog, instances>>
  BY DEF Record
<1>3. l.name \in LoggerNames /\ handlers[l.name] \in Nat /\ l.name \in names(m)
  BY <1>1 DEF TypeOK, Loggers, names
<1>4. TypeOK'
  BY <1>1, <1>2, <1>3 DEF TypeOK, Emissions
<1>5. \A q : names(q)' = names(q)
  BY <1>2 DEF names
<1>6. PrintedOnce'
  BY <1>1, <1>2, <1>3, <1>5 DEF PrintedOnce, HandlersCounted
<1>7. OneLogger' /\ HandlersCounted' /\ Renamed' /\ ReusedOptionsStayApart'
  BY <1>2, <1>5 DEF OneLogger, HandlersCounted, Renamed, ReusedOptionsStayApart
<1>8. Printers'
  BY <1>1, <1>2 DEF Printers
<1> QED
  BY <1>4, <1>6, <1>7, <1>8

LEMMA StepInv == Inv /\ [Next]_vars => Inv'
<1>1. Inv /\ Next => Inv'
  BY StepFirst, StepLater, StepFails, StepRecord DEF Next
<1>2. Inv /\ UNCHANGED vars => Inv'
  BY Unmoved DEF vars, Inv, TypeOK, Renamed
<1> QED
  BY <1>1, <1>2

(* The invariant from which the properties of the loggers follow. *)
THEOREM Safety == Spec => []Inv
BY InitInv, StepInv, PTL DEF Spec

(* Every variable of the loggers keeps its type. *)
THEOREM JsTypes == Spec => []TypeOK
BY Safety, PTL DEF Inv

(* A record is printed once, unless its logger's name was given to another
   module or was the server's own. *)
THEOREM AlwaysPrintedOnce == Spec => []PrintedOnce
BY Safety, PTL DEF Inv

(* Modules that were given one options object have loggers of their own, also
   after constructors that failed. *)
THEOREM ReusedOptionsAreApart == Spec => []ReusedOptionsStayApart
BY Safety, PTL DEF Inv
=============================================================================
