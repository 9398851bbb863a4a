---------------------------- MODULE StartupProofs ----------------------------
(***************************************************************************)
(* Proofs about the start of the monitor and its calls of the Telegram API,*)
(* for any files and any answers.                                          *)
(***************************************************************************)
EXTENDS Startup, TLAPS

Requested == IF data THEN 1 ELSE 0

InTransfer == call \in {"perform", "cleanup"}

\* Who is registered: init's list only while init runs, if its file was readable.
RegisteredInv ==
    /\ pc \in {"init", "exited", "targets"} => dead = {}
    /\ conf.monitor # None =>
          /\ ~wild
          /\ pc = "targets" => open \/ registered = {}
          /\ dead = {} \/ "target" \notin registered

\* What a call in progress has in use at least; a signal may have left more.
InUse ==
    /\ call # "none" => globals >= 1
    /\ InTransfer => handles >= 1 /\ posted >= Requested

\* What it has in use if no signal cut another one off.
Ledger ==
    pc # "stopping" =>
        /\ ~InTransfer => handles = 0 /\ posted = 0
        /\ InTransfer => handles = 1 /\ posted = Requested
        /\ globals + buffers <= calls + (CASE call = "none" -> 0 [] call = "easy_init" -> 1
                                           [] call = "perform" -> IF out = NULL THEN 1 ELSE 2
                                           [] call = "cleanup" -> 2)

\* What has arrived in this call says what the server did in this call.
AnswerInv ==
    /\ InTransfer /\ out \notin {0, NULL} /\ says => ok
    /\ call = "none" /\ result => ok

SInv == TypeOK /\ RegisteredInv /\ InUse /\ Ledger /\ AnswerInv

-----------------------------------------------------------------------------
\* The types of the variables, one by one.
LEMMA Types ==
    ASSUME TypeOK
    PROVE  /\ conf \in Configuration /\ tv[1] \in Int /\ tv[2] \in Int
           /\ wild \in BOOLEAN /\ open \in BOOLEAN
           /\ data \in BOOLEAN /\ says \in BOOLEAN /\ ok \in BOOLEAN /\ result \in BOOLEAN
           /\ globals \in Nat /\ handles \in Nat /\ posted \in Nat /\ buffers \in Nat /\ calls \in Nat
BY DEF TypeOK

\* Storing a value keeps the type of a variable.
LEMMA StoreType ==
    ASSUME NEW k \in Key, NEW old \in Contents(k), NEW v \in Value
    PROVE  Store(k, old, v) \in Contents(k)
<1>1. atoi(v) \in Int
  BY FieldAssumption DEF atoi
<1>2. Type(k) \in {"LST", "STR", "INT"}
  BY DEF Type, Key
<1>3. CASE Type(k) = "LST"
  BY <1>3 DEF Store, Contents
<1>4. CASE Type(k) = "STR"
  BY <1>4 DEF Store, Contents
<1>5. CASE Type(k) = "INT"
  BY <1>1, <1>5 DEF Store, Contents
<1> QED
  BY <1>2, <1>3, <1>4, <1>5

\* Zeroed memory has the right types.
LEMMA ZeroedType == DOMAIN Zeroed = Key /\ \A k \in Key : Zeroed[k] \in Contents(k)
BY DEF Zeroed, Contents, Type, Key

\* A target keeps name, host and port of its definition.
LEMMA SplitType ==
    ASSUME NEW d \in Value, Len(d) >= 3
    PROVE  Split(d) \in [name : Field, host : Seq(Field), port : Seq(Field)]
BY DEF Split, Value

\* A process that ends leaves nothing behind.
LEMMA DieSafe == ASSUME TypeOK, Die PROVE SInv'
<1>1. TypeOK'
  <2>1. mem' = Zeroed
    BY DEF Die
  <2>2. DOMAIN mem' = Key /\ \A k \in Key : mem'[k] \in Contents(k)
    BY <2>1, ZeroedType
  <2>3. tv'[1] = 0 /\ tv'[2] = 0
    BY DEF Die
  <2>4. {data', says', ok', result'} \subseteq BOOLEAN /\ {wild', open'} \subseteq BOOLEAN
    BY DEF Die
  <2>5. out' \in 0..Size \cup {NULL}
    BY DEF Die
  <2> QED
    BY <2>2, <2>3, <2>4, <2>5 DEF Die, TypeOK
<1>2. RegisteredInv' /\ AnswerInv'
  BY DEF Die, RegisteredInv, AnswerInv, InTransfer
<1>3. InUse' /\ Ledger'
  BY DEF Die, InUse, Ledger, InTransfer
<1> QED
  BY <1>1, <1>2, <1>3 DEF SInv

-----------------------------------------------------------------------------
(* Reading                                                                  *)

\* Registering and opening keep the types.
LEMMA RegisterType ==
    ASSUME TypeOK, NEW K \in SUBSET Key, NEW defaults,
           \A k \in Key \cap DOMAIN defaults : defaults[k] \in Contents(k),
           register_pointer(K, defaults),
           NEW file \in {None} \cup Seq(Piece), fopen(file)
    PROVE  /\ registered' \subseteq Key
           /\ DOMAIN mem' = Key /\ \A k \in Key : mem'[k] \in Contents(k)
           /\ open' \in BOOLEAN /\ input' \in Seq(Piece)
<1>1. registered' \subseteq Key
  BY DEF register_pointer, TypeOK
<1>2. DOMAIN mem' = Key /\ \A k \in Key : mem'[k] \in Contents(k)
  BY DEF register_pointer, TypeOK
<1>3. open' \in BOOLEAN /\ input' \in Seq(Piece)
  BY Types DEF fopen, TypeOK
<1> QED
  BY <1>1, <1>2, <1>3

\* Reading a piece keeps the types.
LEMMA FgetsType ==
    ASSUME TypeOK, fgets
    PROVE  /\ DOMAIN mem' = Key /\ \A k \in Key : mem'[k] \in Contents(k)
           /\ wild' \in BOOLEAN /\ input' \in Seq(Piece)
<1>1. input \in Seq(Piece) /\ input # <<>> /\ input' = Tail(input)
  BY DEF fgets, TypeOK
<1>2. input' \in Seq(Piece) /\ Head(input) \in Piece
  BY <1>1
<1>3. CASE UNCHANGED <<mem, wild>>
  BY <1>2, <1>3, Types DEF TypeOK
<1>4. CASE Accepted(Head(input)) /\ generic_callback(Head(input).key, Head(input).value)
  <2> DEFINE k == Head(input).key
             v == Head(input).value
  <2>1. k \in Key /\ v \in Value
    BY <1>2, <1>4 DEF Accepted, Piece, TypeOK
  <2>2. CASE mem' = [mem EXCEPT ![k] = Store(k, mem[k], v)] /\ UNCHANGED wild
    <3>1. Store(k, mem[k], v) \in Contents(k)
      BY <2>1, StoreType DEF TypeOK
    <3> QED
      BY <1>2, <2>1, <2>2, <3>1, Types DEF TypeOK
  <2>3. CASE wild' = TRUE /\ UNCHANGED mem
    BY <1>2, <2>3 DEF TypeOK
  <2> QED
    BY <1>4, <2>2, <2>3 DEF generic_callback
<1> QED
  BY <1>3, <1>4 DEF fgets

\* A definition that is still to be split is a value.
LEMMA DefinitionType ==
    ASSUME TypeOK, Len(targets) < Len(mem["target"])
    PROVE  Definition \in Value
<1>1. mem["target"] \in Seq(Value) /\ Len(targets) \in Nat
  BY DEF TypeOK, Contents, Type, Key
<1> QED
  BY <1>1 DEF Definition

-----------------------------------------------------------------------------
(* Calls                                                                    *)

\* Every step of a call keeps the types and the invariants about calls.
LEMMA CallSafe ==
    ASSUME SInv, ApiStep, pc' = pc
    PROVE  /\ call' \in {"none", "easy_init", "perform", "cleanup"}
           /\ out' \in 0..Size \cup {NULL}
           /\ {data', says', ok', result'} \subseteq BOOLEAN
           /\ {globals', handles', posted', buffers', calls'} \subseteq Nat
           /\ InUse' /\ Ledger' /\ AnswerInv'
<1> USE DEF resources, InTransfer, Requested
<1>0. /\ data \in BOOLEAN /\ says \in BOOLEAN /\ ok \in BOOLEAN /\ result \in BOOLEAN
      /\ globals \in Nat /\ handles \in Nat /\ posted \in Nat /\ buffers \in Nat /\ calls \in Nat
      /\ out \in 0..Size \cup {NULL} /\ Size \in Nat \ {0} /\ NULL \notin Nat
      /\ InUse /\ Ledger /\ AnswerInv
  BY Types, SizeAssumption DEF SInv, TypeOK
<1>1. CASE easy_init_fails
  <2>1. call' = "none" /\ result' = FALSE /\ calls' = calls + 1 /\ UNCHANGED <<data, out, says, ok, resources>>
    BY <1>1 DEF easy_init_fails
  <2>2. InUse' /\ Ledger'
    BY <1>0, <1>1, <2>1 DEF easy_init_fails, InUse, Ledger
  <2>3. AnswerInv'
    BY <2>1 DEF AnswerInv
  <2>4. result' \in BOOLEAN /\ data' \in BOOLEAN /\ says' \in BOOLEAN /\ ok' \in BOOLEAN
    BY <1>0, <2>1
  <2>5. {globals', handles', posted', buffers', calls'} \subseteq Nat
    BY <1>0, <2>1
  <2>6. out' \in 0..Size \cup {NULL}
    BY <1>0, <2>1
  <2> QED
    BY <2>1, <2>2, <2>3, <2>4, <2>5, <2>6
<1>2. CASE easy_init
  BY <1>0, <1>2 DEF easy_init, InUse, Ledger, AnswerInv
<1>3. CASE Accept
  BY <1>0, <1>3 DEF Accept, InUse, Ledger, AnswerInv
<1>4. CASE write_to_string
  BY <1>0, <1>4 DEF write_to_string, Received, InUse, Ledger, AnswerInv
<1>5. CASE write_to_string_fails
  BY <1>0, <1>5 DEF write_to_string_fails, InUse, Ledger, AnswerInv
<1>6. CASE Performed
  BY <1>0, <1>6 DEF Performed, InUse, Ledger, AnswerInv
<1>7. CASE Cleanup
  BY <1>0, <1>7 DEF Cleanup, InUse, Ledger, AnswerInv
<1> QED
  BY <1>1, <1>2, <1>3, <1>4, <1>5, <1>6, <1>7 DEF ApiStep

\* A call begins between two calls, or a signal begins one anywhere.
LEMMA BeginSafe ==
    ASSUME SInv, NEW post \in BOOLEAN,
           (call_telegram_api(post) /\ pc' # "stopping" /\ pc # "stopping") \/ handle_signal
    PROVE  /\ call' \in {"none", "easy_init", "perform", "cleanup"}
           /\ out' \in 0..Size \cup {NULL}
           /\ {data', says', ok', result'} \subseteq BOOLEAN
           /\ {globals', handles', posted', buffers', calls'} \subseteq Nat
           /\ InUse' /\ Ledger' /\ AnswerInv'
<1>0. /\ data \in BOOLEAN /\ says \in BOOLEAN /\ result \in BOOLEAN
      /\ globals \in Nat /\ handles \in Nat /\ posted \in Nat /\ buffers \in Nat /\ calls \in Nat
      /\ out \in 0..Size \cup {NULL} /\ InUse /\ Ledger
  BY Types DEF SInv, TypeOK
<1>1. /\ call' = "easy_init" /\ globals' = globals + 1 /\ data' \in BOOLEAN /\ ok' = FALSE
      /\ UNCHANGED <<out, says, result, handles, posted, buffers, calls>>
  BY DEF call_telegram_api, handle_signal
<1>2. ok' \in BOOLEAN /\ says' \in BOOLEAN /\ result' \in BOOLEAN /\ out' \in 0..Size \cup {NULL}
  BY <1>0, <1>1
<1>3. {globals', handles', posted', buffers', calls'} \subseteq Nat
  BY <1>0, <1>1
<1>4. InUse' /\ AnswerInv'
  BY <1>0, <1>1 DEF InUse, AnswerInv, InTransfer
<1>5. pc' = "stopping" \/ (call = "none" /\ pc # "stopping")
  BY DEF call_telegram_api, handle_signal
<1>6. Ledger'
  BY <1>0, <1>1, <1>5 DEF Ledger, InTransfer
<1> QED
  BY <1>1, <1>2, <1>3, <1>4, <1>6

-----------------------------------------------------------------------------
\* Every step keeps the invariant.
LEMMA SInvStep == SInv /\ [Next]_vars => SInv'
<1> SUFFICES ASSUME SInv, [Next]_vars PROVE SInv'
  OBVIOUS
<1>0. TypeOK /\ RegisteredInv /\ InUse /\ Ledger /\ AnswerInv
  BY DEF SInv
<1>a. ASSUME UNCHANGED telegram, pc' # "stopping", pc # "stopping" PROVE InUse' /\ Ledger' /\ AnswerInv'
  BY <1>0, <1>a DEF telegram, InUse, Ledger, AnswerInv, InTransfer, Requested
<1>1. CASE init
  <2>1. conf.monitor \in {None} \cup Seq(Piece)
    BY <1>0, Types, ConfigurationAssumption
  <2>2. <<"myself">> \in Contents("myname")
    <3>1. <<"myself">> \in Value
      <4>1. <<"myself">> \in Seq(Field)
        BY FieldAssumption
      <4>2. Len(<<"myself">>) # Len(<<>>)
        OBVIOUS
      <4> QED
        BY <4>1, <4>2 DEF Value
    <3>2. Type("myname") = "STR"
      BY DEF Type
    <3> QED
      BY <3>1, <3>2 DEF Contents
  <2>3. /\ registered' \subseteq Key
        /\ DOMAIN mem' = Key /\ \A k \in Key : mem'[k] \in Contents(k)
        /\ open' \in BOOLEAN /\ input' \in Seq(Piece)
    BY <1>0, <1>1, <2>1, <2>2, RegisterType DEF init, MonitorKeys, Key
  <2>4. TypeOK'
    BY <1>0, <1>1, <2>3 DEF init, telegram, TypeOK
  <2>5. RegisteredInv'
    BY <1>0, <1>1 DEF init, RegisteredInv, fopen
  <2> QED
    BY <1>1, <1>a, <2>4, <2>5 DEF init, SInv
<1>2. CASE ReadProperties
  <2>1. CASE fgets
    <3>1. TypeOK'
      BY <1>0, <1>2, <2>1, FgetsType DEF ReadProperties, fgets, telegram, TypeOK
    <3>2. RegisteredInv'
      <4>1. ASSUME conf.monitor # None PROVE ~wild'
        BY <1>0, <2>1, <4>1 DEF fgets, Accepted, generic_callback, RegisteredInv, TypeOK
      <4> QED
        BY <1>0, <1>2, <2>1, <4>1 DEF ReadProperties, fgets, RegisteredInv
    <3> QED
      BY <1>2, <1>a, <3>1, <3>2 DEF ReadProperties, SInv
  <2>2. CASE EndOfFile
    <3>1. TypeOK'
      BY <1>0, <1>2, <2>2, Types DEF ReadProperties, EndOfFile, telegram, TypeOK
    <3>2. RegisteredInv'
      BY <1>0, <1>2, <2>2 DEF ReadProperties, EndOfFile, RegisteredInv
    <3> QED
      BY <1>2, <1>a, <3>1, <3>2 DEF ReadProperties, SInv
  <2> QED
    BY <1>2, <2>1, <2>2 DEF ReadProperties
<1>3. CASE AddTarget
  <2>1. Split(Definition) \in [name : Field, host : Seq(Field), port : Seq(Field)]
    BY <1>0, <1>3, DefinitionType, SplitType DEF AddTarget
  <2>2. TypeOK'
    BY <1>0, <1>3, <2>1 DEF AddTarget, argparse, telegram, TypeOK
  <2>3. RegisteredInv'
    BY <1>0, <1>3 DEF AddTarget, argparse, RegisteredInv
  <2> QED
    BY <1>3, <1>a, <2>2, <2>3 DEF AddTarget, SInv
<1>4. CASE BadTarget \/ Exit
  BY <1>0, <1>4, DieSafe DEF BadTarget, Exit
<1>5. CASE InitReturns
  <2>1. mem["poll_interval"] \in Int /\ mem["err_interval"] \in Int
    BY <1>0 DEF TypeOK, Contents, Type, Key
  <2>2. TypeOK'
    BY <1>0, <1>5, <2>1 DEF InitReturns, telegram, TypeOK
  <2>3. RegisteredInv'
    BY <1>0, <1>5 DEF InitReturns, RegisteredInv
  <2> QED
    BY <1>5, <1>a, <2>2, <2>3 DEF InitReturns, SInv
<1>6. CASE telegram_init
  <2>1. conf.telegram \in {None} \cup Seq(Piece)
    BY <1>0, Types, ConfigurationAssumption
  <2>2. /\ registered' \subseteq Key
        /\ DOMAIN mem' = Key /\ \A k \in Key : mem'[k] \in Contents(k)
        /\ open' \in BOOLEAN /\ input' \in Seq(Piece)
    <3>1. DOMAIN <<>> = {} /\ TelegramKeys \subseteq Key
      BY DEF TelegramKeys, Key
    <3>2. \A k \in Key \cap DOMAIN <<>> : <<>>[k] \in Contents(k)
      BY <3>1
    <3>3. register_pointer(TelegramKeys, <<>>) /\ fopen(conf.telegram)
      BY <1>6 DEF telegram_init
    <3> QED
      BY <1>0, <2>1, <3>1, <3>2, <3>3, RegisterType
  <2>3. TypeOK'
    BY <1>0, <1>6, <2>2 DEF telegram_init, telegram, TypeOK
  <2>4. RegisteredInv'
    BY <1>0, <1>6 DEF telegram_init, RegisteredInv, register_pointer, TelegramKeys
  <2> QED
    BY <1>6, <1>a, <2>3, <2>4 DEF telegram_init, SInv
<1>7. ASSUME UNCHANGED <<conf, targets, tv, argparse>>, pc' \in {"starting", "running", "stopping"} \/ pc' = pc,
             /\ call' \in {"none", "easy_init", "perform", "cleanup"}
             /\ out' \in 0..Size \cup {NULL}
             /\ {data', says', ok', result'} \subseteq BOOLEAN
             /\ {globals', handles', posted', buffers', calls'} \subseteq Nat
             /\ InUse' /\ Ledger' /\ AnswerInv'
      PROVE  SInv'
  <2>1. TypeOK'
    BY <1>0, <1>7 DEF argparse, TypeOK
  <2>2. RegisteredInv'
    BY <1>0, <1>7 DEF argparse, RegisteredInv
  <2> QED
    BY <1>7, <2>1, <2>2 DEF SInv
<1>8. CASE validate_token
  <2>1. CASE call_telegram_api(FALSE)
    BY <1>7, <1>8, <2>1, BeginSafe DEF validate_token
  <2>2. CASE UNCHANGED telegram
    BY <1>0, <1>7, <1>8, <1>a, <2>2 DEF validate_token, telegram, TypeOK
  <2> QED
    BY <1>8, <2>1, <2>2 DEF validate_token
<1>9. CASE telegram_send_message
  BY <1>7, <1>9, BeginSafe DEF telegram_send_message
<1>10. CASE CallStep
  BY <1>7, <1>10, CallSafe DEF CallStep
<1>11. CASE handle_signal
  BY <1>7, <1>11, BeginSafe DEF handle_signal
<1>12. CASE Restart
  <2>1. TypeOK'
    BY <1>0, <1>12 DEF Restart, argparse, telegram, TypeOK
  <2>2. RegisteredInv'
    BY <1>0, <1>12 DEF Restart, argparse, RegisteredInv
  <2> QED
    BY <1>12, <1>a, <2>1, <2>2 DEF Restart, SInv
<1>13. CASE UNCHANGED vars
  <2>1. TypeOK'
    BY <1>0, <1>13 DEF vars, argparse, telegram, TypeOK
  <2>2. RegisteredInv'
    BY <1>0, <1>13 DEF vars, argparse, RegisteredInv
  <2>3. InUse' /\ Ledger' /\ AnswerInv'
    BY <1>0, <1>13 DEF vars, telegram, InUse, Ledger, AnswerInv, InTransfer, Requested
  <2> QED
    BY <2>1, <2>2, <2>3 DEF SInv
<1> QED
  BY <1>1, <1>2, <1>3, <1>4, <1>5, <1>6, <1>8, <1>9, <1>10, <1>11, <1>12, <1>13 DEF Next

\* It holds when the process starts.
LEMMA InitSafe == Init => SInv
<1> SUFFICES ASSUME Init PROVE SInv
  OBVIOUS
<1>1. mem = Zeroed /\ tv[1] = 0 /\ tv[2] = 0
  BY DEF Init, ArgInit
<1>2. {data, says, ok, result} \subseteq BOOLEAN /\ {wild, open} \subseteq BOOLEAN /\ out \in 0..Size \cup {NULL}
  BY DEF Init, ArgInit, TelegramInit
<1>3. TypeOK
  BY <1>1, <1>2, ZeroedType DEF Init, ArgInit, TelegramInit, TypeOK
<1>4. RegisteredInv /\ InUse /\ Ledger /\ AnswerInv
  BY DEF Init, ArgInit, TelegramInit, RegisteredInv, InUse, Ledger, AnswerInv, InTransfer
<1> QED
  BY <1>3, <1>4 DEF SInv

\* The invariant holds.
THEOREM StartupInvariance == Spec => []SInv
BY InitSafe, SInvStep, PTL DEF Spec

\* Types, for any files.
THEOREM TypeCorrect == Spec => []TypeOK
<1>1. SInv => TypeOK
  BY DEF SInv
<1> QED
  BY <1>1, StartupInvariance, PTL

\* Telegram's file is never stored into init's list if the monitor's is readable.
THEOREM PointersAlive == Spec => []NoWildWrite
<1>1. SInv => NoWildWrite
  BY DEF SInv, RegisteredInv, NoWildWrite
<1> QED
  BY <1>1, StartupInvariance, PTL

\* A call of the API leaks at most one thing.
THEOREM OneLeakPerCall == Spec => []Balanced
<1>1. SInv => Balanced
  BY Types DEF SInv, Ledger, InTransfer, Balanced
<1> QED
  BY <1>1, StartupInvariance, PTL

\* Reported success is the server's, in this very call.
THEOREM Success == Spec => []SuccessIsReal
<1>1. SInv => SuccessIsReal
  BY DEF SInv, AnswerInv, SuccessIsReal
<1> QED
  BY <1>1, StartupInvariance, PTL
=============================================================================
