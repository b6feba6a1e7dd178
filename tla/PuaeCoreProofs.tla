--------------------------- MODULE PuaeCoreProofs ---------------------------
(***************************************************************************)
(* Theorems about one step of the core, for any number of accesses, any    *)
(* registers the core changes and any fields a title writes meanwhile.     *)
(*                                                                         *)
(* While the core runs, a register holds what its field held when the step *)
(* began until the core changes it, and a field is only ever written by    *)
(* the title; at the end the two tables of fields, which name each other's *)
(* entries, put every register where it came from.                         *)
(***************************************************************************)
EXTENDS PuaeCore, TLAPS

LEMMA RegistersAre ==
  Registers = {"data", "address", "pc", "sr", "usp", "ssp", "ir", "irc",
               "prefetch_address", "prefetch_valid", "pending_interrupt_level",
               "stopped", "halted"}
<1>1. DOMAIN Exported = {"data", "address", "pc", "sr", "user_stack_pointer",
        "supervisor_stack_pointer", "instruction_register", "prefetch_word",
        "prefetch_address", "prefetch_valid", "pending_interrupt_level",
        "stopped", "halted"}
  BY DEF Exported
<1>2. Registers = {Exported[f] : f \in DOMAIN Exported}
  BY DEF Registers, Range
<1> QED
  BY <1>1, <1>2 DEF Exported

(* The tables of import_state and export_state are inverse to each other.  *)
LEMMA TablesAgree ==
  /\ DOMAIN Imported = Registers
  /\ \A r \in Registers : Imported[r] \in Fields \ Kept /\ Exported[Imported[r]] = r
  /\ \A f \in Fields \ Kept : Exported[f] \in Registers /\ Imported[Exported[f]] = f
<1>1. DOMAIN Imported = Registers
  BY RegistersAre DEF Imported
<1>2. Fields \ Kept = DOMAIN Exported
  BY DEF Fields, Kept, Exported
<1>3. \A r \in Registers : Imported[r] \in DOMAIN Exported /\ Exported[Imported[r]] = r
  BY RegistersAre DEF Imported, Exported
<1>4. \A f \in DOMAIN Exported : Exported[f] \in Registers /\ Imported[Exported[f]] = f
  BY RegistersAre DEF Imported, Exported
<1> QED
  BY <1>1, <1>2, <1>3, <1>4

-----------------------------------------------------------------------------
Named(who, f) == <<who, f>>
Untouched(f) == {Named("host", f), Named("title", f)}

(* The register r of the snapshot: the core's, or the field's at the start.*)
Held(r) == IF r \in wrote THEN <<"core", r>> ELSE <<"host", Imported[r]>>

Inv ==
  /\ TypeOK
  /\ snapshot = [r \in Registers |-> Held(r)]
  /\ inCore => \A f \in Fields : state[f] \in Untouched(f)
  /\ StepIsTheCores
  /\ StepReportsItsFault

LEMMA AsFoundType ==
  /\ AsFound \in [Fields -> Values]
  /\ \A f \in Fields : AsFound[f] = <<"host", f>>
  /\ Import(AsFound) = [r \in Registers |-> <<"host", Imported[r]>>]
<1>1. AsFound \in [Fields -> Values] /\ \A f \in Fields : AsFound[f] = <<"host", f>>
  BY DEF AsFound, Values
<1>2. \A r \in Registers : AsFound[Imported[r]] = <<"host", Imported[r]>>
  BY <1>1, TablesAgree
<1> QED
  BY <1>1, <1>2, TablesAgree DEF Import

LEMMA InvInit == Init => Inv
<1> SUFFICES ASSUME Init PROVE Inv
  OBVIOUS
<1>1. /\ state = AsFound /\ wrote = {} /\ inCore = FALSE
      /\ snapshot = [r \in Registers |-> Held(r)]
  BY AsFoundType DEF Init, Held
<1>a. /\ answer \in MemoryFaults
      /\ result \in [status : {"Completed", "ReturnedFromInterrupt", "MemoryFault",
                              "Exception", "Halted"},
                    fault : MemoryFaults, vector : {"None", "BusError", "AddressError"}]
  BY DEF Init, Unstepped, MemoryFaults
<1>b. state \in [Fields -> Values] /\ ~inCore /\ accesses \in 0..MaxAccesses
  BY <1>1, AsFoundType, PuaeAssumption DEF Init
<1>2. TypeOK
  BY <1>1, <1>a, <1>b DEF TypeOK
<1>3. StepIsTheCores
  <2>1. \A f \in Fields : state[f] = <<"host", f>>
    BY <1>1, AsFoundType
  <2>2. Kept \subseteq Fields
    BY DEF Fields
  <2>3. \A f \in Kept : state[f] \in {"host", "title"} \X {f}
    BY <2>1, <2>2
  <2> QED
    BY <1>1, <2>1, <2>3 DEF StepIsTheCores
<1>4. StepReportsItsFault
  BY DEF Init, StepReportsItsFault, Unstepped
<1> QED
  BY <1>1, <1>2, <1>3, <1>4 DEF Inv

LEMMA BeginStepKeeps == Inv /\ BeginStep => Inv'
<1> SUFFICES ASSUME Inv, BeginStep PROVE Inv'
  OBVIOUS
<1>1. /\ state' = AsFound /\ wrote' = {} /\ inCore' = TRUE
      /\ snapshot' = [r \in Registers |-> Held(r)']
  BY AsFoundType DEF BeginStep, Held
<1>2. wrote' \subseteq Registers /\ [r \in Registers |-> Held(r)'] \in [Registers -> Values]
  BY <1>1, TablesAgree DEF Held, Values
<1>3. TypeOK'
  BY <1>1, <1>2, AsFoundType, PuaeAssumption
  DEF Inv, BeginStep, TypeOK, MemoryFaults
<1>4. StepIsTheCores' /\ StepReportsItsFault'
  BY <1>1 DEF StepIsTheCores, StepReportsItsFault
<1>5. \A f \in Fields : state'[f] \in Untouched(f)
  BY <1>1, AsFoundType DEF Untouched, Named
<1> QED
  BY <1>1, <1>3, <1>4, <1>5 DEF Inv

LEMMA AccessKeeps ==
  ASSUME Inv, NEW fields \in TitleWrites, NEW registers \in CoreWrites,
         Access(fields, registers)
  PROVE  Inv'
<1>1. /\ inCore /\ inCore' = TRUE /\ result' = result
      /\ wrote' = wrote \union registers
      /\ registers \subseteq Registers /\ wrote \subseteq Registers
      /\ snapshot = [r \in Registers |-> Held(r)]
  BY PuaeAssumption DEF Inv, TypeOK, Access, CoreChanges
<1>2. snapshot' = [r \in Registers |-> Held(r)']
  <2>1. snapshot' = [r \in Registers |-> IF r \in registers THEN <<"core", r>> ELSE Held(r)]
    BY <1>1 DEF Access, CoreChanges
  <2>2. \A r \in Registers :
          (IF r \in registers THEN <<"core", r>> ELSE Held(r)) = Held(r)'
    BY <1>1 DEF Held
  <2> QED
    BY <2>1, <2>2
<1>3. snapshot' \in [Registers -> Values] /\ wrote' \subseteq Registers
  <2>1. \A r \in Registers : Held(r)' \in Values
    BY <1>1, TablesAgree DEF Held, Values
  <2> QED
    BY <1>1, <1>2, <2>1
<1>4. /\ state' \in [Fields -> Values]
      /\ \A f \in Fields : state'[f] \in Untouched(f)
  BY DEF Inv, TypeOK, Access, Untouched, Named, Values
<1>5. answer' \in MemoryFaults
  BY DEF Access
<1>6. accesses' \in 0..MaxAccesses
  BY PuaeAssumption DEF Inv, TypeOK, Access
<1>7. TypeOK'
  BY <1>1, <1>3, <1>4, <1>5, <1>6 DEF Inv, TypeOK
<1>8. StepIsTheCores' /\ StepReportsItsFault'
  BY <1>1 DEF StepIsTheCores, StepReportsItsFault
<1> QED
  BY <1>1, <1>2, <1>4, <1>7, <1>8 DEF Inv

LEMMA EndStepKeeps == Inv /\ EndStep => Inv'
<1> SUFFICES ASSUME Inv, EndStep PROVE Inv'
  OBVIOUS
<1>1. /\ inCore /\ inCore' = FALSE /\ UNCHANGED <<snapshot, answer, accesses, wrote>>
      /\ state' = Export(state, snapshot)
      /\ snapshot = [r \in Registers |-> Held(r)] /\ wrote \subseteq Registers
  BY DEF Inv, TypeOK, EndStep
<1>2. /\ \A f \in Kept : state'[f] = state[f] /\ f \in Fields
      /\ \A f \in Fields \ Kept : state'[f] = Held(Exported[f])
      /\ DOMAIN state' = Fields
  BY <1>1, TablesAgree DEF Export, Fields
<1>3. \A f \in Fields \ Kept :
        state'[f] = IF Exported[f] \in wrote THEN <<"core", Exported[f]>> ELSE <<"host", f>>
  BY <1>2, TablesAgree DEF Held
<1>4. StepIsTheCores'
  <2>1. \A r \in wrote' : \E f \in Fields : state'[f] = <<"core", r>>
    <3> SUFFICES ASSUME NEW r \in wrote PROVE \E f \in Fields : state'[f] = <<"core", r>>
      BY <1>1
    <3>1. Imported[r] \in Fields \ Kept /\ Exported[Imported[r]] = r
      BY <1>1, TablesAgree
    <3> QED
      BY <1>3, <3>1
  <2>2. \A f \in Fields \ Kept : state'[f] \in {<<"host", f>>} \union {"core"} \X wrote'
    <3> SUFFICES ASSUME NEW f \in Fields \ Kept
                 PROVE  state'[f] \in {<<"host", f>>} \union {"core"} \X wrote
      BY <1>1
    <3>1. CASE Exported[f] \in wrote
      <4>1. state'[f] = <<"core", Exported[f]>>
        BY <1>3, <3>1
      <4>2. <<"core", Exported[f]>> \in {"core"} \X wrote
        BY <3>1
      <4> QED
        BY <4>1, <4>2
    <3>2. CASE Exported[f] \notin wrote
      BY <1>3, <3>2
    <3> QED
      BY <3>1, <3>2
  <2>3. \A f \in Kept : state'[f] \in {"host", "title"} \X {f}
    BY <1>1, <1>2 DEF Inv, Untouched, Named
  <2> QED
    BY <2>1, <2>2, <2>3 DEF StepIsTheCores
<1>5. state' \in [Fields -> Values]
  <2>1. \A f \in Fields : state'[f] \in Values
    BY <1>1, <1>2, <1>3, TablesAgree DEF Inv, TypeOK, Values, Untouched, Named
  <2> QED
    BY <1>1, <2>1 DEF Export
<1>6. PICK r \in CoreResults :
        result' = [status |-> Status(r), fault |-> ImportFault[r.memory],
                   vector |-> IF Status(r) = "MemoryFault"
                              THEN FaultVector(ImportFault[r.memory]) ELSE "None"]
  BY DEF EndStep
<1>7. answer \in MemoryFaults
  BY DEF Inv, TypeOK
<1>8. CASE answer # "None"
  <2>1. /\ r.status = "MEMORY_FAULT" /\ ImportFault[r.memory] = answer
    BY <1>6, <1>7, <1>8 DEF CoreResults, ExportFault, ImportFault, MemoryFaults
  <2>2. Status(r) = "MemoryFault"
    BY <2>1 DEF Status
  <2>3. /\ FaultVector(answer) \in {"BusError", "AddressError"}
        /\ FaultVector(answer) = "AddressError" <=> answer = "Misaligned"
    BY DEF FaultVector
  <2>4. StepReportsItsFault'
    BY <1>1, <1>6, <1>7, <1>8, <2>1, <2>2, <2>3 DEF StepReportsItsFault
  <2>5. TypeOK'
    BY <1>1, <1>5, <1>6, <1>7, <2>1, <2>2, <2>3 DEF Inv, TypeOK
  <2> QED
    BY <1>1, <1>4, <1>7, <2>4, <2>5 DEF Inv, Held
<1>9. CASE answer = "None"
  <2>1. \/ /\ r.status \in {"OK", "EXCEPTION", "HALTED"} /\ r.memory = "OK"
           /\ r.rte \in BOOLEAN
        \/ r.status = "MEMORY_FAULT" /\ r.memory = "MISALIGNED"
    BY <1>6, <1>9 DEF CoreResults
  <2>2. ImportFault["OK"] = "None" /\ ImportFault["MISALIGNED"] = "Misaligned"
    BY DEF ImportFault
  <2>3. /\ r.memory = "OK" =>
             Status(r) \in {"Completed", "ReturnedFromInterrupt", "Exception", "Halted"}
        /\ r.memory = "MISALIGNED" => Status(r) = "MemoryFault"
        /\ r.memory \in {"OK", "MISALIGNED"}
    BY <2>1 DEF Status
  <2>4. StepReportsItsFault'
    BY <1>1, <1>6, <1>9, <2>2, <2>3 DEF StepReportsItsFault, FaultVector
  <2>5. TypeOK'
    BY <1>1, <1>5, <1>6, <1>7, <2>2, <2>3 DEF Inv, TypeOK, FaultVector, MemoryFaults
  <2> QED
    BY <1>1, <1>4, <1>7, <2>4, <2>5 DEF Inv, Held
<1> QED
  BY <1>8, <1>9

LEMMA InvNext == Inv /\ [Next]_puaeVars => Inv'
<1> SUFFICES ASSUME Inv, [Next]_puaeVars PROVE Inv'
  OBVIOUS
<1>1. CASE Next
  BY <1>1, BeginStepKeeps, AccessKeeps, EndStepKeeps DEF Next
<1>2. CASE UNCHANGED puaeVars
  BY <1>2 DEF puaeVars, Inv, TypeOK, StepIsTheCores, StepReportsItsFault, Held
<1> QED
  BY <1>1, <1>2

(* The state around a step keeps its type.                                 *)
THEOREM PuaeTypeOK == Spec => []TypeOK
<1>1. Inv => TypeOK
  BY DEF Inv
<1> QED
  BY <1>1, InvInit, InvNext, PTL DEF Spec

(* After a step state() holds what the core left and what it found, and    *)
(* nothing a title wrote to a register meanwhile (PuaeCore::step).         *)
THEOREM PuaeStepIsTheCores == Spec => []StepIsTheCores
<1>1. Inv => StepIsTheCores
  BY DEF Inv
<1> QED
  BY <1>1, InvInit, InvNext, PTL DEF Spec

(* A refused access is reported as the title's Memory put it, and only     *)
(* then or at an odd access of the core's own does a step report a fault.  *)
THEOREM PuaeStepReportsItsFault == Spec => []StepReportsItsFault
<1>1. Inv => StepReportsItsFault
  BY DEF Inv
<1> QED
  BY <1>1, InvInit, InvNext, PTL DEF Spec
=============================================================================
