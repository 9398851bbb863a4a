------------------------- MODULE ConfigurationProofs -------------------------
(***************************************************************************)
(* Proof that the two configuration files are understood as documented,    *)
(* for regular files with any number of lines: only comments are longer    *)
(* than the reader's buffer.                                               *)
(***************************************************************************)
EXTENDS StartupProofs, SequenceTheorems

TelegramFile == Text(conf.telegram)

\* What a variable holds before its file is read.
Default(k) == IF k = "myname" THEN <<"myself">> ELSE Zeroed[k]

\* What is still to be read is the end of a file.
Suffix(file) ==
    /\ Len(input) <= Len(file)
    /\ \A i \in 1..Len(input) : input[i] = file[Len(file) - Len(input) + i]

\* The pieces of the file that have been read.
Read(file, reading) == IF open /\ reading THEN Len(file) - Len(input) ELSE Len(file)

Stage == {"targets", "telegram_init", "validate_token", "starting", "running"}

\* Which file is open, who is registered for it, and what nobody has set yet.
StageInv ==
    /\ pc \in {"init", "exited"} => registered = {} /\ mem = Zeroed /\ targets = <<>>
    /\ pc \in {"init", "exited", "telegram_init", "starting", "running"} => ~open
    /\ pc \in {"targets", "telegram_init"} => \A k \in TelegramKeys : mem[k] = Default(k)
    /\ pc = "targets" =>
          /\ registered \subseteq MonitorKeys
          /\ open => conf.monitor # None /\ registered = MonitorKeys /\ targets = <<>> /\ Suffix(conf.monitor)
    /\ pc \in Stage \ {"targets"} /\ conf.monitor # None => registered \subseteq TelegramKeys
    /\ pc = "validate_token" /\ open =>
          conf.telegram # None /\ TelegramKeys \subseteq registered /\ Suffix(conf.telegram)

\* The variables of the monitor agree with the part of its file that has been read.
MonitorInv ==
    LET M == conf.monitor
    IN pc \in Stage /\ M # None /\ Regular(M, MonitorKeys) =>
         \A k \in MonitorKeys : Documented(M, Read(M, pc = "targets"), k, Default(k), mem[k])

\* The targets are the definitions, as far as they have been split; without a file
\* there are none, and the intervals are 0.
TargetInv ==
    /\ pc \in Stage /\ conf.monitor # None =>
          /\ Len(targets) <= Len(mem["target"])
          /\ \A i \in 1..Len(targets) : Rejoin(targets[i]) = mem["target"][i]
          /\ pc # "targets" =>
                Len(targets) = Len(mem["target"]) /\ tv[1] = mem["poll_interval"] /\ tv[2] = mem["err_interval"]
    /\ pc \in Stage /\ conf.monitor = None =>
          /\ targets = <<>>
          /\ pc = "targets" => ~open /\ \A k \in MonitorKeys : mem[k] = Default(k)
          /\ pc # "targets" => tv[1] = 0 /\ tv[2] = 0

\* The variables of telegram agree with the part of its file that has been read.
TelegramInv ==
    pc \in {"validate_token", "starting", "running"} /\ Regular(TelegramFile, TelegramKeys) =>
        \A k \in TelegramKeys :
            Documented(TelegramFile, Read(TelegramFile, pc = "validate_token"), k, Default(k), mem[k])

CInv == SInv /\ StageInv /\ MonitorInv /\ TargetInv /\ TelegramInv

-----------------------------------------------------------------------------
(* Lines and what they say                                                  *)

\* One more piece is one more line for k, or none.
LEMMA LinesStep ==
    ASSUME NEW file \in Seq(Piece), NEW n \in Nat, NEW k
    PROVE  /\ n + 1 \in Lines(file, n + 1, k) => Lines(file, n + 1, k) = Lines(file, n, k) \cup {n + 1}
           /\ n + 1 \notin Lines(file, n + 1, k) => Lines(file, n + 1, k) = Lines(file, n, k)
           /\ Lines(file, n, k) \subseteq 1..n
<1>1. 1..(n + 1) = (1..n) \cup {n + 1}
  OBVIOUS
<1> QED
  BY <1>1 DEF Lines

\* Nothing read, nothing set.
LEMMA DocumentedEmpty ==
    ASSUME NEW file, NEW k \in Key, NEW x, Type(k) = "LST" => x = <<>>
    PROVE  Documented(file, 0, k, x, x)
<1>1. Lines(file, 0, k) = {}
  BY DEF Lines
<1>2. CASE Type(k) = "LST"
  <2>1. x = <<>> /\ Len(x) = 0 /\ 1..Len(x) = {}
    BY <1>2
  <2> DEFINE at == [j \in 1..Len(x) |-> 0]
  <2>2. at \in [1..Len(x) -> {}]
    BY <2>1
  <2> QED
    BY <1>1, <1>2, <2>1, <2>2 DEF Documented, Listed
<1> QED
  BY <1>1, <1>2 DEF Documented

\* A piece that is no line for k changes nothing.
LEMMA DocumentedSkip ==
    ASSUME NEW file \in Seq(Piece), NEW n \in Nat, NEW k \in Key, NEW default, NEW x,
           Documented(file, n, k, default, x), n + 1 \notin Lines(file, n + 1, k)
    PROVE  Documented(file, n + 1, k, default, x)
BY LinesStep DEF Documented

\* A line for k is stored.
LEMMA DocumentedStore ==
    ASSUME NEW file \in Seq(Piece), NEW n \in Nat, NEW k \in Key, NEW default, NEW x \in Contents(k),
           Documented(file, n, k, default, x), n + 1 \in Lines(file, n + 1, k), file[n + 1].value \in Value
    PROVE  Documented(file, n + 1, k, default, Store(k, x, file[n + 1].value))
<1> DEFINE lines == Lines(file, n, k)
           more == Lines(file, n + 1, k)
           v == file[n + 1].value
<1>1. more = lines \cup {n + 1} /\ lines \subseteq 1..n
  BY LinesStep
<1>2. CASE Type(k) = "LST"
  <2>1. x \in Seq(Value) /\ Store(k, x, v) = Append(x, v) /\ Listed(file, lines, x)
    BY <1>2 DEF Contents, Store, Documented
  <2> DEFINE y == Append(x, v)
  <2>2. /\ Len(x) \in Nat /\ Len(y) = Len(x) + 1
        /\ \A j \in 1..Len(x) : y[j] = x[j]
        /\ y[Len(x) + 1] = v
    BY <2>1
  <2>3. PICK at \in [1..Len(x) -> lines] :
            /\ \A i, j \in 1..Len(x) : i < j => at[i] < at[j]
            /\ \A l \in lines : \E j \in 1..Len(x) : at[j] = l
            /\ \A j \in 1..Len(x) : x[j] = file[at[j]].value
    BY <2>1 DEF Listed
  <2> DEFINE to == [j \in 1..Len(y) |-> IF j = Len(x) + 1 THEN n + 1 ELSE at[j]]
  <2> HIDE DEF lines, more, v, y
  <2>4. 1..Len(y) = (1..Len(x)) \cup {Len(x) + 1}
    BY <2>2
  <2>5. /\ to[Len(x) + 1] = n + 1
        /\ \A j \in 1..Len(x) : to[j] = at[j] /\ to[j] \in lines /\ to[j] < n + 1
    <3>1. to[Len(x) + 1] = n + 1
      BY <2>2, <2>4
    <3>2. ASSUME NEW j \in 1..Len(x) PROVE to[j] = at[j] /\ at[j] \in lines
      BY <2>2, <2>4
    <3>3. \A l \in lines : l < n + 1
      BY <1>1
    <3> QED
      BY <3>1, <3>2, <3>3
  <2>6. to \in [1..Len(y) -> more]
    BY <1>1, <2>4, <2>5
  <2> HIDE DEF to
  <2>7. \A i, j \in 1..Len(y) : i < j => to[i] < to[j]
    <3> SUFFICES ASSUME NEW i \in 1..Len(y), NEW j \in 1..Len(y), i < j PROVE to[i] < to[j]
      OBVIOUS
    <3>1. i \in 1..Len(x)
      BY <2>2
    <3> QED
      BY <2>3, <2>4, <2>5, <3>1
  <2>8. \A l \in more : \E j \in 1..Len(y) : to[j] = l
    <3> SUFFICES ASSUME NEW l \in more PROVE \E j \in 1..Len(y) : to[j] = l
      OBVIOUS
    <3>1. CASE l = n + 1
      BY <2>4, <2>5, <3>1
    <3>2. CASE l \in lines
      BY <2>3, <2>4, <2>5, <3>2
    <3> QED
      BY <1>1, <3>1, <3>2
  <2>9. \A j \in 1..Len(y) : y[j] = file[to[j]].value
    BY <2>2, <2>3, <2>4, <2>5 DEF v
  <2>10. Listed(file, more, y)
    BY <2>6, <2>7, <2>8, <2>9 DEF Listed
  <2> QED
    BY <1>2, <2>1, <2>10 DEF Documented, more, y, v
<1>3. CASE Type(k) \in {"STR", "INT"}
  <2>1. Store(k, x, v) = IF Type(k) = "INT" THEN atoi(v) ELSE v
    BY <1>3 DEF Store
  <2>2. n + 1 \in more /\ \A l \in more : l <= n + 1
    BY <1>1
  <2>3. LastGiven(file, more, k, Store(k, x, v))
    BY <2>1, <2>2 DEF LastGiven
  <2> QED
    BY <1>3, <2>3 DEF Documented
<1> QED
  BY <1>2, <1>3 DEF Type, Key

\* A target joined again is its definition.
LEMMA RejoinSplit ==
    ASSUME NEW d \in Value, Len(d) >= 3
    PROVE  Rejoin(Split(d)) = d
<1> DEFINE host == SubSeq(d, 2, Len(d) - 1)
           t == <<Head(d)>> \o host \o <<d[Len(d)]>>
<1>1. d \in Seq(Field) /\ Len(d) \in Nat /\ Head(d) = d[1]
  BY DEF Value
<1>2. /\ host \in Seq(Field) /\ Len(host) = Len(d) - 2
      /\ \A i \in 1..(Len(d) - 2) : host[i] = d[i + 1]
  BY <1>1
<1>3. <<Head(d)>> \in Seq(Field) /\ <<d[Len(d)]>> \in Seq(Field)
  BY <1>1
<1>4. t \in Seq(Field) /\ Len(t) = Len(d)
  BY <1>1, <1>2, <1>3
<1>5. \A i \in 1..Len(d) : t[i] = d[i]
  BY <1>1, <1>2, <1>3
<1>6. t = d
  BY <1>1, <1>4, <1>5, SeqEqual
<1> QED
  BY <1>6 DEF Rejoin, Split

-----------------------------------------------------------------------------
(* Reading a piece                                                          *)

\* The variable of a registered key follows a regular file.
LEMMA ReadPiece ==
    ASSUME TypeOK, fgets, NEW file \in Seq(Piece), Suffix(file),
           NEW K \in SUBSET registered, Regular(file, K), NEW k \in K, k \notin dead,
           NEW default, Documented(file, Len(file) - Len(input), k, default, mem[k])
    PROVE  Documented(file, Len(file) - Len(input'), k, default, mem'[k])
<1> DEFINE n == Len(file) - Len(input)
           p == Head(input)
<1>1. input \in Seq(Piece) /\ input # <<>> /\ input' = Tail(input) /\ registered \subseteq Key
  BY DEF fgets, TypeOK
<1>2. /\ n \in Nat /\ n + 1 \in 1..Len(file) /\ Len(file) - Len(input') = n + 1
      /\ p = file[n + 1]
  BY <1>1 DEF Suffix
<1>3. p \in Piece
  BY <1>2
<1>4. k \in Key /\ mem[k] \in Contents(k) /\ DOMAIN mem = Key
  BY <1>1 DEF TypeOK
<1> HIDE DEF n, p
<1>5. Documented(file, n, k, default, mem[k])
  BY DEF n
<1>6. \/ Accepted(p) /\ generic_callback(p.key, p.value)
      \/ ~Accepted(p) /\ UNCHANGED <<mem, wild>>
  BY DEF fgets, p
<1>7. CASE n + 1 \in Lines(file, n + 1, k)
  <2>1. p.kind = "property" /\ p.end /\ p.key = k
    BY <1>2, <1>7 DEF Lines, Regular
  <2>2. Accepted(p) /\ p.value \in Value
    BY <1>3, <2>1 DEF Accepted, Piece
  <2>3. mem' = [mem EXCEPT ![k] = Store(k, mem[k], p.value)]
    BY <1>6, <2>1, <2>2 DEF generic_callback
  <2>4. mem'[k] = Store(k, mem[k], file[n + 1].value)
    BY <1>2, <1>4, <2>3
  <2> QED
    BY <1>2, <1>4, <1>5, <1>7, <2>2, <2>4, DocumentedStore
<1>8. CASE n + 1 \notin Lines(file, n + 1, k)
  <2>1. ASSUME Accepted(p), p.key = k PROVE FALSE
    <3>1. p.kind = "property" /\ p.end
      BY <2>1 DEF Accepted
    <3>2. Begins(file, n + 1)
      BY <1>2, <2>1, <3>1 DEF Regular
    <3> QED
      BY <1>2, <1>8, <2>1, <3>1, <3>2 DEF Lines
  <2>2. mem'[k] = mem[k]
    BY <1>4, <1>6, <2>1 DEF generic_callback
  <2> QED
    BY <1>2, <1>4, <1>5, <1>8, <2>2, DocumentedSkip
<1> QED
  BY <1>7, <1>8

\* The rest of the file stays the rest of the file.
LEMMA ReadSuffix ==
    ASSUME TypeOK, fgets, NEW file \in Seq(Piece), Suffix(file)
    PROVE  /\ Len(input') <= Len(file)
           /\ \A i \in 1..Len(input') : input'[i] = file[Len(file) - Len(input') + i]
<1>1. input \in Seq(Piece) /\ input # <<>> /\ input' = Tail(input)
  BY DEF fgets, TypeOK
<1>2. Len(input') = Len(input) - 1 /\ \A i \in 1..Len(input') : input'[i] = input[i + 1] /\ i + 1 \in 1..Len(input)
  BY <1>1
<1>3. Len(file) \in Nat /\ Len(input) \in Nat
  BY <1>1
<1> QED
  BY <1>2, <1>3 DEF Suffix

\* A piece leaves the variable of a key that is not registered alone.
LEMMA ReadOther ==
    ASSUME TypeOK, fgets, NEW k \in Key, k \notin registered
    PROVE  mem'[k] = mem[k]
BY DEF fgets, Accepted, generic_callback, TypeOK

\* Both files, if they could be opened, are sequences of pieces.
LEMMA Files ==
    ASSUME TypeOK
    PROVE  /\ conf.monitor # None => conf.monitor \in Seq(Piece)
           /\ conf.telegram # None => conf.telegram \in Seq(Piece)
           /\ TelegramFile \in Seq(Piece)
BY Types, ConfigurationAssumption DEF TelegramFile, Text

\* Keys, and what their variables hold at first.
LEMMA Keys ==
    /\ MonitorKeys \subseteq Key /\ TelegramKeys \subseteq Key /\ MonitorKeys \cap TelegramKeys = {}
    /\ "target" \in MonitorKeys /\ "target" \notin TelegramKeys
    /\ \A k \in Key : Type(k) = "LST" => Default(k) = <<>>
BY DEF MonitorKeys, TelegramKeys, Key, Default, Zeroed, Type

-----------------------------------------------------------------------------
\* A process that ends forgets both files.
LEMMA DieForgets == ASSUME TypeOK, Die PROVE StageInv' /\ MonitorInv' /\ TargetInv' /\ TelegramInv'
BY DEF Die, StageInv, MonitorInv, TargetInv, TelegramInv, Stage

\* A step that leaves the configuration alone leaves it understood.
LEMMA Keeps ==
    ASSUME CInv, UNCHANGED <<conf, targets, tv, argparse>>,
           \/ pc' = pc
           \/ pc' = "stopping"
           \/ pc = "exited" /\ pc' = "init"
           \/ pc \in {"validate_token", "starting"} /\ pc' \in {"starting", "running"} /\ ~open
    PROVE  StageInv' /\ MonitorInv' /\ TargetInv' /\ TelegramInv'
<1>0. StageInv /\ MonitorInv /\ TargetInv /\ TelegramInv
  BY DEF CInv
<1>1. StageInv'
  BY <1>0 DEF argparse, StageInv, Stage, Suffix
<1>2. MonitorInv'
  BY <1>0 DEF argparse, MonitorInv, Stage, Read
<1>3. TargetInv'
  BY <1>0 DEF argparse, TargetInv, Stage
<1>4. TelegramInv'
  BY <1>0 DEF argparse, TelegramInv, TelegramFile, Text, Read
<1> QED
  BY <1>1, <1>2, <1>3, <1>4

\* Registering and opening: init.
LEMMA InitStep == ASSUME CInv, init PROVE StageInv' /\ MonitorInv' /\ TargetInv' /\ TelegramInv'
<1>0. TypeOK /\ pc = "init" /\ registered = {} /\ mem = Zeroed /\ targets = <<>> /\ ~open
  BY DEF CInv, SInv, StageInv, init
<1>1. pc' = "targets" /\ registered' = MonitorKeys /\ UNCHANGED <<conf, targets>> /\ fopen(conf.monitor)
  BY <1>0 DEF init, register_pointer
<1>2. \A k \in Key : mem'[k] = Default(k)
  <2> DEFINE named == [k \in {"myname"} |-> <<"myself">>]
  <2>1. DOMAIN named = {"myname"} /\ named["myname"] = <<"myself">>
    OBVIOUS
  <2>2. mem' = [k \in Key |-> IF k \in DOMAIN named THEN named[k] ELSE mem[k]]
    BY DEF init, register_pointer
  <2> QED
    BY <1>0, <2>1, <2>2 DEF Default
<1>3. open' => conf.monitor # None /\ input' = conf.monitor
  BY <1>0, <1>1 DEF fopen
<1>4. conf.monitor # None => open'
  BY <1>1 DEF fopen
<1>5. StageInv'
  BY <1>0, <1>1, <1>2, <1>3, Files, Keys DEF StageInv, Stage, Suffix
<1>6. MonitorInv'
  <2> SUFFICES ASSUME conf.monitor # None, NEW k \in MonitorKeys
               PROVE  Documented(conf.monitor, Read(conf.monitor, TRUE)', k, Default(k), mem'[k])
    BY <1>1 DEF MonitorInv
  <2>1. Read(conf.monitor, TRUE)' = 0
    BY <1>0, <1>1, <1>3, <1>4, Files DEF Read
  <2> QED
    BY <1>2, <2>1, Keys, DocumentedEmpty
<1>7. TargetInv'
  <2>1. mem'["target"] = <<>>
    BY <1>2, Keys DEF Default, Zeroed, Type
  <2> QED
    BY <1>0, <1>1, <1>2, <1>3, <2>1, Keys DEF TargetInv
<1> QED
  BY <1>1, <1>5, <1>6, <1>7 DEF TelegramInv

\* Registering and opening: telegram_init.
LEMMA TelegramStep == ASSUME CInv, telegram_init PROVE StageInv' /\ MonitorInv' /\ TargetInv' /\ TelegramInv'
<1>0. /\ TypeOK /\ StageInv /\ MonitorInv /\ TargetInv /\ pc = "telegram_init" /\ ~open
      /\ \A k \in TelegramKeys : mem[k] = Default(k)
  BY DEF CInv, SInv, StageInv, telegram_init
<1>1. /\ pc' = "validate_token" /\ registered' = registered \cup TelegramKeys /\ UNCHANGED <<conf, targets, tv>>
      /\ fopen(conf.telegram)
  BY DEF telegram_init, register_pointer
<1>2. \A k \in Key : mem'[k] = mem[k]
  <2>1. DOMAIN <<>> = {}
    OBVIOUS
  <2> QED
    BY <2>1 DEF telegram_init, register_pointer
<1>3. /\ open' => conf.telegram # None /\ input' = conf.telegram
      /\ conf.telegram # None => open'
  BY <1>0, <1>1 DEF fopen
<1>4. StageInv'
  BY <1>0, <1>1, <1>3, Files DEF StageInv, Stage, Suffix
<1>5. MonitorInv'
  BY <1>0, <1>1, <1>2, Keys DEF MonitorInv, Stage, Read
<1>6. TargetInv'
  BY <1>0, <1>1, <1>2 DEF TargetInv, Stage, Key
<1>7. TelegramInv'
  <2> SUFFICES ASSUME NEW k \in TelegramKeys
               PROVE  Documented(TelegramFile, Read(TelegramFile, TRUE)', k, Default(k), mem'[k])
    BY <1>1 DEF TelegramInv, TelegramFile, Text
  <2>1. Read(TelegramFile, TRUE)' = 0
    BY <1>0, <1>1, <1>3, Files DEF Read, TelegramFile, Text
  <2> QED
    BY <1>0, <1>2, <2>1, Keys, DocumentedEmpty
<1> QED
  BY <1>4, <1>5, <1>6, <1>7

\* A piece of the monitor's file.
LEMMA ReadMonitor ==
    ASSUME CInv, ReadProperties, fgets, pc = "targets"
    PROVE  StageInv' /\ MonitorInv' /\ TargetInv' /\ TelegramInv'
<1> DEFINE M == conf.monitor
<1>0. TypeOK /\ RegisteredInv /\ StageInv /\ MonitorInv /\ TargetInv
  BY DEF CInv, SInv
<1>1. /\ open /\ UNCHANGED <<pc, conf, targets, tv, registered, dead, open>>
  BY DEF ReadProperties, fgets
<1>2. /\ M # None /\ M \in Seq(Piece) /\ registered = MonitorKeys /\ targets = <<>> /\ Suffix(M) /\ dead = {}
      /\ \A k \in TelegramKeys : mem[k] = Default(k)
  BY <1>0, <1>1, Files DEF StageInv, RegisteredInv
<1>3. StageInv'
  <2>1. \A k \in TelegramKeys : mem'[k] = Default(k)
    BY <1>0, <1>2, Keys, ReadOther
  <2>2. Suffix(M)'
    BY <1>0, <1>1, <1>2, ReadSuffix DEF Suffix
  <2> QED
    BY <1>1, <1>2, <2>1, <2>2 DEF StageInv, Stage
<1>4. MonitorInv'
  <2> SUFFICES ASSUME Regular(M, MonitorKeys), NEW k \in MonitorKeys
               PROVE  Documented(M, Len(M) - Len(input'), k, Default(k), mem'[k])
    BY <1>1 DEF MonitorInv, Read
  <2>1. Documented(M, Len(M) - Len(input), k, Default(k), mem[k])
    BY <1>0, <1>1, <1>2 DEF MonitorInv, Read, Stage
  <2> QED
    BY <1>0, <1>2, <2>1, ReadPiece
<1>5. TargetInv'
  <2>1. mem'["target"] \in Seq(Value)
    BY <1>0, FgetsType DEF Contents, Type, Key
  <2> QED
    BY <1>1, <1>2, <2>1 DEF TargetInv
<1> QED
  BY <1>1, <1>3, <1>4, <1>5 DEF TelegramInv

\* A piece of telegram's file.
LEMMA ReadTelegram ==
    ASSUME CInv, ReadProperties, fgets, pc = "validate_token"
    PROVE  StageInv' /\ MonitorInv' /\ TargetInv' /\ TelegramInv'
<1> DEFINE T == TelegramFile
<1>0. TypeOK /\ RegisteredInv /\ StageInv /\ MonitorInv /\ TargetInv /\ TelegramInv
  BY DEF CInv, SInv
<1>1. /\ open /\ UNCHANGED <<pc, conf, targets, tv, registered, dead, open>>
  BY DEF ReadProperties, fgets
<1>2. /\ T \in Seq(Piece) /\ T = conf.telegram /\ conf.telegram # None
      /\ TelegramKeys \subseteq registered /\ Suffix(T) /\ dead \subseteq {"target"}
  BY <1>0, <1>1, Files DEF StageInv, TelegramFile, Text, TypeOK
<1>3. conf.monitor # None => \A k \in MonitorKeys : mem'[k] = mem[k]
  <2> SUFFICES ASSUME conf.monitor # None, NEW k \in MonitorKeys PROVE mem'[k] = mem[k]
    OBVIOUS
  <2>1. k \in Key /\ k \notin registered
    BY <1>0, Keys DEF StageInv, Stage
  <2> QED
    BY <1>0, <2>1, ReadOther
<1>4. StageInv'
  <2>1. Suffix(conf.telegram)'
    BY <1>0, <1>1, <1>2, ReadSuffix DEF Suffix
  <2> QED
    BY <1>0, <1>1, <1>2, <2>1 DEF StageInv, Stage
<1>5. MonitorInv'
  BY <1>0, <1>1, <1>3 DEF MonitorInv, Read, Stage
<1>6. TargetInv'
  BY <1>0, <1>1, <1>3 DEF TargetInv, Stage, MonitorKeys
<1>7. TelegramInv'
  <2> SUFFICES ASSUME Regular(T, TelegramKeys), NEW k \in TelegramKeys
               PROVE  Documented(T, Len(T) - Len(input'), k, Default(k), mem'[k])
    BY <1>1 DEF TelegramInv, TelegramFile, Text, Read
  <2>1. Documented(T, Len(T) - Len(input), k, Default(k), mem[k])
    BY <1>0, <1>1 DEF TelegramInv, Read
  <2>2. k \notin dead
    BY <1>2, Keys
  <2> HIDE DEF T
  <2> QED
    BY <1>0, <1>2, <2>1, <2>2, ReadPiece
<1> QED
  BY <1>4, <1>5, <1>6, <1>7

\* The end of either file: all of it has been read, and nobody is registered.
LEMMA ReadEnd ==
    ASSUME CInv, ReadProperties, EndOfFile
    PROVE  StageInv' /\ MonitorInv' /\ TargetInv' /\ TelegramInv'
<1>0. TypeOK /\ StageInv /\ MonitorInv /\ TargetInv /\ TelegramInv
  BY DEF CInv, SInv
<1>1. /\ open /\ ~open' /\ registered' = {} /\ input = <<>> /\ pc \in {"targets", "validate_token"}
      /\ UNCHANGED <<pc, conf, targets, tv, mem>>
  BY DEF ReadProperties, EndOfFile
<1>2. StageInv'
  BY <1>0, <1>1 DEF StageInv, Stage
<1>3. \A file \in Seq(Piece) : Len(file) - Len(input) = Len(file)
  BY <1>1
<1>4. MonitorInv'
  BY <1>0, <1>1, <1>3, Files DEF MonitorInv, Read, Stage
<1>5. TargetInv'
  BY <1>0, <1>1 DEF TargetInv, Stage
<1>6. TelegramInv'
  BY <1>0, <1>1, <1>3, Files DEF TelegramInv, TelegramFile, Text, Read
<1> QED
  BY <1>2, <1>4, <1>5, <1>6

\* Without the monitor's file there is nothing to split.
LEMMA Unread ==
    ASSUME TargetInv, pc = "targets", conf.monitor = None
    PROVE  /\ targets = <<>> /\ Len(targets) = 0 /\ Len(mem["target"]) = 0
           /\ mem["poll_interval"] = 0 /\ mem["err_interval"] = 0
<1>1. targets = <<>> /\ \A k \in MonitorKeys : mem[k] = Default(k)
  BY DEF TargetInv, Stage
<1>2. Default("target") = <<>> /\ Default("poll_interval") = 0 /\ Default("err_interval") = 0
  BY DEF Default, Zeroed, Type, Key
<1> QED
  BY <1>1, <1>2 DEF MonitorKeys

\* A definition is split.
LEMMA SplitStep == ASSUME CInv, AddTarget PROVE StageInv' /\ MonitorInv' /\ TargetInv' /\ TelegramInv'
<1>0. TypeOK /\ StageInv /\ MonitorInv /\ TargetInv
  BY DEF CInv, SInv
<1>1. /\ pc = "targets" /\ ~open /\ Len(targets) < Len(mem["target"]) /\ Len(Definition) >= 3
      /\ targets' = Append(targets, Split(Definition)) /\ UNCHANGED <<pc, conf, tv, argparse>>
  BY DEF AddTarget
<1>2. StageInv'
  BY <1>0, <1>1 DEF StageInv, Stage, argparse
<1>3. MonitorInv'
  BY <1>0, <1>1 DEF MonitorInv, Stage, Read, argparse
<1>4. TargetInv'
  <2>0. conf.monitor # None
    BY <1>0, <1>1, Unread
  <2> SUFFICES /\ Len(targets') <= Len(mem["target"])
               /\ \A i \in 1..Len(targets') : Rejoin(targets'[i]) = mem["target"][i]
    BY <1>1, <2>0 DEF TargetInv, argparse
  <2>1. Rejoin(Split(Definition)) = Definition
    BY <1>0, <1>1, DefinitionType, RejoinSplit
  <2>2. targets \in Seq([name : Field, host : Seq(Field), port : Seq(Field)]) /\ Len(mem["target"]) \in Nat
    BY <1>0 DEF TypeOK, Contents, Type, Key
  <2> DEFINE new == Split(Definition)
  <2>3. new \in [name : Field, host : Seq(Field), port : Seq(Field)]
    BY <1>0, <1>1, DefinitionType, SplitType
  <2> HIDE DEF new
  <2>4. /\ Len(targets') = Len(targets) + 1 /\ targets'[Len(targets) + 1] = new
        /\ \A i \in 1..Len(targets) : targets'[i] = targets[i]
    BY <1>1, <2>2, <2>3 DEF new
  <2>5. \A i \in 1..Len(targets) : Rejoin(targets[i]) = mem["target"][i]
    BY <1>0, <1>1, <2>0 DEF TargetInv, Stage
  <2>6. Rejoin(new) = mem["target"][Len(targets) + 1]
    BY <2>1 DEF new, Definition
  <2>7. \A i \in 1..Len(targets') : i \in 1..Len(targets) \/ i = Len(targets) + 1
    BY <2>2, <2>4
  <2> QED
    BY <1>1, <2>2, <2>4, <2>5, <2>6, <2>7
<1> QED
  BY <1>1, <1>2, <1>3, <1>4 DEF TelegramInv

\* init returns.
LEMMA ReturnStep == ASSUME CInv, InitReturns PROVE StageInv' /\ MonitorInv' /\ TargetInv' /\ TelegramInv'
<1>0. TypeOK /\ RegisteredInv /\ StageInv /\ MonitorInv /\ TargetInv
  BY DEF CInv, SInv
<1>1. /\ pc = "targets" /\ ~open /\ Len(targets) = Len(mem["target"]) /\ pc' = "telegram_init"
      /\ tv' = <<mem["poll_interval"], mem["err_interval"]>>
      /\ UNCHANGED <<conf, targets, registered, mem, open, input>>
  BY DEF InitReturns
<1>2. conf.monitor # None => registered = {}
  BY <1>0, <1>1 DEF RegisteredInv
<1>3. StageInv'
  BY <1>0, <1>1, <1>2 DEF StageInv, Stage
<1>4. MonitorInv'
  BY <1>0, <1>1 DEF MonitorInv, Stage, Read
<1>5. TargetInv'
  <2>1. CASE conf.monitor # None
    BY <1>0, <1>1, <2>1 DEF TargetInv, Stage
  <2>2. CASE conf.monitor = None
    <3>1. targets = <<>> /\ mem["poll_interval"] = 0 /\ mem["err_interval"] = 0
      BY <1>0, <1>1, <2>2, Unread
    <3> QED
      BY <1>1, <2>2, <3>1 DEF TargetInv
  <2> QED
    BY <2>1, <2>2
<1> QED
  BY <1>1, <1>3, <1>4, <1>5 DEF TelegramInv

-----------------------------------------------------------------------------
\* Every step keeps the configuration understood.
LEMMA CInvStep == CInv /\ [Next]_vars => CInv'
<1> SUFFICES ASSUME CInv, [Next]_vars PROVE CInv'
  OBVIOUS
<1>0. SInv /\ SInv' /\ TypeOK
  BY SInvStep DEF CInv, SInv
<1>1. CASE init
  BY <1>1, <1>0, InitStep DEF CInv
<1>2. CASE ReadProperties
  <2>1. fgets \/ EndOfFile
    BY <1>2 DEF ReadProperties
  <2>2. pc \in {"targets", "validate_token"}
    BY <1>2 DEF ReadProperties
  <2> QED
    BY <1>0, <1>2, <2>1, <2>2, ReadMonitor, ReadTelegram, ReadEnd DEF CInv
<1>3. CASE AddTarget
  BY <1>0, <1>3, SplitStep DEF CInv
<1>4. CASE BadTarget \/ Exit
  BY <1>0, <1>4, DieForgets DEF BadTarget, Exit, CInv
<1>5. CASE InitReturns
  BY <1>0, <1>5, ReturnStep DEF CInv
<1>6. CASE telegram_init
  BY <1>0, <1>6, TelegramStep DEF CInv
<1>7. CASE validate_token
  BY <1>0, <1>7, Keeps DEF validate_token, CInv
<1>8. CASE telegram_send_message
  <2>1. pc \in {"starting", "running"} /\ pc' = "running" /\ UNCHANGED <<conf, targets, tv, argparse>>
    BY <1>8 DEF telegram_send_message
  <2>2. ~open
    BY <2>1 DEF CInv, StageInv
  <2> QED
    BY <1>0, <2>1, <2>2, Keeps DEF CInv
<1>9. CASE CallStep
  BY <1>0, <1>9, Keeps DEF CallStep, CInv
<1>10. CASE handle_signal
  BY <1>0, <1>10, Keeps DEF handle_signal, CInv
<1>11. CASE Restart
  BY <1>0, <1>11, Keeps DEF Restart, CInv
<1>12. CASE UNCHANGED vars
  BY <1>0, <1>12, Keeps DEF vars, CInv
<1> QED
  BY <1>1, <1>2, <1>3, <1>4, <1>5, <1>6, <1>7, <1>8, <1>9, <1>10, <1>11, <1>12 DEF Next

\* Both files are understood as documented, whatever is in them as long as only
\* comments are overlong: init splits every target definition, each file sets only
\* its own variables, and a piece of a comment is no property.
THEOREM Understood == Spec => []AsDocumented
<1>1. Init => CInv
  <2> SUFFICES ASSUME Init, SInv PROVE CInv
    BY InitSafe
  <2> QED
    BY DEF CInv, Init, ArgInit, StageInv, MonitorInv, TargetInv, TelegramInv, Stage
<1>2. CInv => AsDocumented
  <2> DEFINE M == Text(conf.monitor)
             split == [i \in 1..Len(targets) |-> Rejoin(targets[i])]
  <2> SUFFICES ASSUME CInv, pc \in {"starting", "running"}
               PROVE  /\ Regular(M, MonitorKeys) =>
                            /\ Documented(M, Len(M), "target", <<>>, split)
                            /\ Documented(M, Len(M), "poll_interval", 0, tv[1])
                            /\ Documented(M, Len(M), "err_interval", 0, tv[2])
                            /\ conf.monitor # None => Documented(M, Len(M), "myname", <<"myself">>, mem["myname"])
                      /\ Regular(TelegramFile, TelegramKeys) =>
                            /\ Documented(TelegramFile, Len(TelegramFile), "user_id", 0, mem["user_id"])
                            /\ Documented(TelegramFile, Len(TelegramFile), "token", None, mem["token"])
    BY DEF AsDocumented, TelegramFile
  <2>0. TypeOK /\ ~open /\ MonitorInv /\ TargetInv /\ TelegramInv
    BY DEF CInv, SInv, StageInv
  <2>1. /\ Default("target") = <<>> /\ Default("poll_interval") = 0 /\ Default("err_interval") = 0
        /\ Default("myname") = <<"myself">> /\ Default("user_id") = 0 /\ Default("token") = None
    BY DEF Default, Zeroed, Type, Key
  <2>2. ASSUME Regular(TelegramFile, TelegramKeys)
        PROVE  \A k \in TelegramKeys : Documented(TelegramFile, Len(TelegramFile), k, Default(k), mem[k])
    BY <2>0, <2>2 DEF TelegramInv, Read
  <2>3. ASSUME conf.monitor # None, Regular(M, MonitorKeys)
        PROVE  /\ Documented(M, Len(M), "target", <<>>, split)
               /\ Documented(M, Len(M), "poll_interval", 0, tv[1])
               /\ Documented(M, Len(M), "err_interval", 0, tv[2])
               /\ Documented(M, Len(M), "myname", <<"myself">>, mem["myname"])
    <3>1. \A k \in MonitorKeys : Documented(M, Len(M), k, Default(k), mem[k])
      BY <2>0, <2>3 DEF MonitorInv, Stage, Read, Text
    <3>2. mem["target"] \in Seq(Value) /\ Len(targets) = Len(mem["target"])
      BY <2>0, <2>3 DEF TargetInv, Stage, TypeOK, Contents, Type, Key
    <3>3. \A i \in 1..Len(targets) : Rejoin(targets[i]) = mem["target"][i]
      BY <2>0, <2>3 DEF TargetInv, Stage
    <3>4. split = mem["target"]
      BY <3>2, <3>3
    <3>5. tv[1] = mem["poll_interval"] /\ tv[2] = mem["err_interval"]
      BY <2>0, <2>3 DEF TargetInv, Stage
    <3> HIDE DEF M, split
    <3> QED
      BY <2>1, <3>1, <3>4, <3>5 DEF MonitorKeys
  <2>4. ASSUME conf.monitor = None
        PROVE  /\ Documented(M, Len(M), "target", <<>>, split)
               /\ Documented(M, Len(M), "poll_interval", 0, tv[1])
               /\ Documented(M, Len(M), "err_interval", 0, tv[2])
    <3>1. M = <<>> /\ Len(M) = 0
      BY <2>4 DEF Text
    <3>2. targets = <<>> /\ tv[1] = 0 /\ tv[2] = 0
      BY <2>0, <2>4 DEF TargetInv, Stage
    <3>3. split = <<>>
      BY <3>2
    <3>4. "target" \in Key /\ "poll_interval" \in Key /\ "err_interval" \in Key
      BY DEF Key
    <3>5. Type("poll_interval") # "LST" /\ Type("err_interval") # "LST"
      BY DEF Type
    <3> HIDE DEF M, split
    <3> QED
      BY <3>1, <3>2, <3>3, <3>4, <3>5, DocumentedEmpty
  <2>5. Regular(TelegramFile, TelegramKeys) =>
           /\ Documented(TelegramFile, Len(TelegramFile), "user_id", 0, mem["user_id"])
           /\ Documented(TelegramFile, Len(TelegramFile), "token", None, mem["token"])
    BY <2>1, <2>2 DEF TelegramKeys
  <2> HIDE DEF M, split
  <2> QED
    BY <2>3, <2>4, <2>5
<1> QED
  BY <1>1, <1>2, CInvStep, PTL DEF Spec
=============================================================================
