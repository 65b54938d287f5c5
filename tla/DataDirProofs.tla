--------------------------- MODULE DataDirProofs ----------------------------
(* The data directory for any number of crashes and workers: key, schema,    *)
(* committed items and certificate pair, and that the program is up at last. *)
EXTENDS DataDir, TLAPS

\* The stages with an open database.
Opened == {"tables", "kv", "column", "cert", "crt", "tls key", "write tls key", "load", "up"}

\* The key and the pair the process works with.
KeyInv ==
    /\ pc \in Opened \cup {"db", "wal", "open"} => key \in Nat /\ keyFile = key
    /\ pc = "write key" => key \in Nat /\ keyFile = Torn
    /\ pc \in {"crt", "tls key", "write tls key"} => pair \in Nat

TypeInv == TypeOK /\ KeyInv

LEMMA ItemFacts ==
    /\ Schema \subseteq Item
    /\ \A w \in Worker, k \in Nat : Row(w, k) \in Item
    /\ \A i \in 1 .. 5 : Created(Tables[i]) \subseteq Schema /\ Named(Tables[i]) \in Created(Tables[i])
    /\ Column \in Schema /\ KvKey \in Schema
<1>1. \A i \in 1 .. 5 : Tables[i] = "workers" => Created(Tables[i]) = {Named(Tables[i]), Column}
  BY DEF Created
<1>2. \A i \in 1 .. 5 : Tables[i] # "workers" => Created(Tables[i]) = {Named(Tables[i])}
  BY DEF Created
<1>3. Schema \subseteq Item
  BY DEF Item
<1>4. \A w \in Worker, k \in Nat : Row(w, k) \in Item
  BY DEF Item, Row
<1>5. Column \in Schema /\ KvKey \in Schema /\ \A i \in 1 .. 5 : Named(Tables[i]) \in Schema
  BY DEF Schema
<1> QED BY <1>1, <1>2, <1>3, <1>4, <1>5

\* What an installation under the old name has on disk.
LEMMA LegacyItems ==
    ASSUME Legacy
    PROVE  /\ oldDb \subseteq Item /\ oldWal \subseteq Item
           /\ \A item \in oldDb \cup oldWal :
                item \in Schema \/ \E w \in Worker : item = Row(w, 0)
<1> DEFINE RowsOf(workers) == {Row(w, 0) : w \in workers}
<1>1. PICK column \in SUBSET {Column}, rows \in SUBSET Worker :
        LET schema == (Schema \ {Column}) \cup column
        IN  \/ \E logged \in SUBSET rows :
                 oldDb = schema \cup RowsOf(rows \ logged) /\ oldWal = RowsOf(logged)
            \/ oldDb = {} /\ oldWal = schema \cup RowsOf(rows)
  BY DEF Legacy
<1> DEFINE schema == (Schema \ {Column}) \cup column
<1>2. schema \subseteq Schema
  BY ItemFacts
<1>3. \A W \in SUBSET Worker : \A item \in RowsOf(W) : \E w \in Worker : item = Row(w, 0)
  OBVIOUS
<1>4. \/ \E logged \in SUBSET rows :
           oldDb = schema \cup RowsOf(rows \ logged) /\ oldWal = RowsOf(logged)
      \/ oldDb = {} /\ oldWal = schema \cup RowsOf(rows)
  BY <1>1
<1> HIDE DEF schema, RowsOf
<1>5. \A item \in oldDb \cup oldWal : item \in Schema \/ \E w \in Worker : item = Row(w, 0)
  <2>1. CASE \E logged \in SUBSET rows :
               oldDb = schema \cup RowsOf(rows \ logged) /\ oldWal = RowsOf(logged)
    <3>1. PICK logged \in SUBSET rows :
            oldDb = schema \cup RowsOf(rows \ logged) /\ oldWal = RowsOf(logged)
      BY <2>1
    <3>2. rows \ logged \in SUBSET Worker /\ logged \in SUBSET Worker
      OBVIOUS
    <3> QED BY <1>2, <1>3, <3>1, <3>2
  <2>2. CASE oldDb = {} /\ oldWal = schema \cup RowsOf(rows)
    BY <1>2, <1>3, <2>2
  <2> QED BY <1>4, <2>1, <2>2
<1>6. \A item \in oldDb \cup oldWal : item \in Item
  BY <1>5, ItemFacts
<1> QED BY <1>5, <1>6

LEMMA InitTypeInv == Init => TypeInv
<1> SUFFICES ASSUME Init PROVE TypeInv
  OBVIOUS
<1>1. /\ oldDb \subseteq Item /\ oldWal \subseteq Item
      /\ kvKey \in Nat \cup {Absent}
      /\ legacyKey \in File /\ made \in Nat /\ files \subseteq {NewName, OldName}
  <2>1. CASE Fresh
    BY <2>1 DEF Fresh, File
  <2>2. CASE Legacy
    BY <2>2, LegacyItems DEF Legacy, File
  <2> QED BY <2>1, <2>2 DEF Init
<1>a. /\ pc = "down" /\ key = Absent /\ pair = Absent /\ keyFile = Absent
      /\ db = {} /\ wal = {} /\ crt = Absent /\ tlsKey = Absent
      /\ crashes = 0 /\ separated = FALSE /\ committed = oldDb \cup oldWal
  BY DEF Init
<1>b. 0 \in 0 .. MaxCrashes /\ "down" \in Steps /\ Absent \in File
  BY MaxCrashesAssumption DEF Steps, File
<1>2. TypeOK
  BY <1>1, <1>a, <1>b DEF TypeOK
<1>3. KeyInv
  BY DEF Init, KeyInv, Opened
<1> QED BY <1>2, <1>3 DEF TypeInv

\* The steps that only move on, without touching a file or the history.
Moves ==
    \/ Start \/ RefuseKey \/ KeepDb \/ TablesExist \/ CertExists
    \/ LoadPair \/ RefusePair \/ ServeWithoutSelfSigned

\* The statements that commit, and what they commit.
Commits(kind) ==
    \E items \in SUBSET kind :
      /\ Commit(items)
      /\ made' \in {made, made + 1} /\ kvKey' \in {kvKey, made}
      /\ UNCHANGED <<key, pair, keyFiles, notWal, certFiles, crashes, separated>>

LEMMA CommitSteps ==
    /\ \A i \in 1 .. 5 : CreateTable(i) => Commits(Schema) /\ pc = "tables" /\ pc' = "tables"
    /\ InsertKvKey => Commits(Schema) /\ pc = "kv" /\ pc' = "column"
    /\ AddColumn => Commits(Schema) /\ pc = "column" /\ pc' = "cert"
    /\ TypeInv => \A w \in Worker : AddWorker(w) => Commits({Row(w, key)}) /\ pc = "up" /\ pc' = "up" /\ key \in Nat
<1>1. ASSUME UNCHANGED <<wal, committed>> PROVE Commit({})
  BY <1>1 DEF Commit
<1>2. \A i \in 1 .. 5 : Created(Tables[i]) \in SUBSET Schema
  BY ItemFacts
<1>3. {Column} \in SUBSET Schema /\ {KvKey} \in SUBSET Schema /\ {} \in SUBSET Schema
  BY ItemFacts
<1>4. ASSUME NEW i \in 1 .. 5, CreateTable(i)
      PROVE  Commits(Schema) /\ pc = "tables" /\ pc' = "tables"
  BY <1>2, <1>4 DEF CreateTable, Commits, Goto
<1>5. ASSUME InsertKvKey PROVE Commits(Schema) /\ pc = "kv" /\ pc' = "column"
  BY <1>1, <1>3, <1>5 DEF InsertKvKey, Commits, Goto
<1>6. ASSUME AddColumn PROVE Commits(Schema) /\ pc = "column" /\ pc' = "cert"
  BY <1>1, <1>3, <1>6 DEF AddColumn, Commits, Goto
<1>7. ASSUME TypeInv, NEW w \in Worker, AddWorker(w)
      PROVE  Commits({Row(w, key)}) /\ pc = "up" /\ pc' = "up" /\ key \in Nat
  <2>1. key \in Nat
    BY <1>7 DEF TypeInv, KeyInv, AddWorker, Opened
  <2> QED BY <1>7, <2>1 DEF AddWorker, Commits
<1> QED BY <1>4, <1>5, <1>6, <1>7

LEMMA StepTypeInv == TypeInv /\ [Next]_vars => TypeInv'
<1> SUFFICES ASSUME TypeInv, [Next]_vars PROVE TypeInv'
  OBVIOUS
<1> USE DEF TypeInv, keyFiles, dbFiles, notWal, certFiles, history
<1>f. /\ pc \in Steps /\ made \in Nat /\ crashes \in 0 .. MaxCrashes
      /\ key \in Nat \cup {Absent} /\ keyFile \in Nat \cup {Absent, Torn}
      /\ kvKey \in Nat \cup {Absent}
      /\ Absent # Torn /\ Absent \notin Nat /\ Torn \notin Nat
  BY FileAssumption DEF TypeOK, File
<1>1. CASE Moves
  <2>1. pc' \in Steps /\ pc' \notin {"write key", "crt", "tls key", "write tls key"}
        /\ UNCHANGED <<key, pair, keyFiles, dbFiles, certFiles, made, crashes, history>>
        /\ (pc' \in Opened \cup {"db", "wal", "open"} => pc \in Opened \cup {"db", "wal", "open"})
    BY <1>1 DEF Moves, Start, RefuseKey, KeepDb, TablesExist, CertExists, RefusePair,
                ServeWithoutSelfSigned, LoadPair, Goto, Steps, Opened
  <2>2. TypeOK'
    BY <2>1 DEF TypeOK
  <2>3. KeyInv'
    BY <2>1 DEF KeyInv
  <2> QED BY <2>2, <2>3
<1>2. CASE RenameKey
  BY <1>2 DEF RenameKey, Goto, TypeOK, File, Steps, KeyInv, Opened
<1>3. CASE ReadKey
  BY <1>3, <1>f DEF ReadKey, Goto, TypeOK, File, Steps, KeyInv, Opened
<1>4. CASE CreateKey
  <2>1. /\ pc' = "write key" /\ key' = made /\ made' = made + 1 /\ keyFile' = Torn
        /\ UNCHANGED <<pair, legacyKey, dbFiles, certFiles, crashes, history>>
    BY <1>4 DEF CreateKey, Goto
  <2>c. made \in Nat
    BY <1>f
  <2>d. key' = made /\ made' = made + 1
    BY <2>1
  <2>a. key' \in Nat /\ made' \in Nat
    BY <2>c, <2>d
  <2>b. "write key" \in Steps /\ Torn \in File
    BY DEF Steps, File
  <2>2. TypeOK'
    BY <2>1, <2>a, <2>b DEF TypeOK
  <2>3. KeyInv'
    BY <2>1, <2>a DEF KeyInv, Opened
  <2> QED BY <2>2, <2>3
<1>5. CASE WriteKey
  BY <1>5, <1>f DEF WriteKey, Goto, TypeOK, File, Steps, KeyInv, Opened
<1>6. CASE RenameDb \/ RenameWal \/ RenameWalFails \/ Open
  <2>1. /\ pc' \in {"wal", "open", "tables"} /\ pc \in {"db", "wal", "open"}
        /\ UNCHANGED <<key, pair, keyFile, legacyKey, kvKey, crt, tlsKey, made, crashes, committed>>
        /\ files' \subseteq {NewName, OldName}
        /\ db' \subseteq Item /\ wal' \subseteq Item /\ oldDb' \subseteq Item /\ oldWal' \subseteq Item
        /\ separated' \in BOOLEAN
    BY <1>6 DEF RenameDb, RenameWal, RenameWalFails, Open, Goto, TypeOK
  <2>2. TypeOK'
    BY <2>1 DEF TypeOK, Steps
  <2>3. KeyInv'
    BY <2>1 DEF KeyInv, Opened
  <2> QED BY <2>2, <2>3
<1>7. ASSUME NEW kind \in SUBSET Item, Commits(kind), pc \in Opened, pc' \in {"tables", "column", "cert", "up"}
      PROVE  TypeInv'
  <2>1. PICK items \in SUBSET kind :
          /\ Commit(items)
          /\ made' \in {made, made + 1} /\ kvKey' \in {kvKey, made}
          /\ UNCHANGED <<key, pair, keyFiles, notWal, certFiles, crashes, separated>>
    BY <1>7 DEF Commits
  <2>2. wal' \subseteq Item /\ committed' \subseteq Item
    BY <2>1 DEF Commit, TypeOK
  <2>a. made' \in Nat /\ kvKey' \in Nat \cup {Absent}
    BY <2>1, <1>f
  <2>3. TypeOK'
    BY <1>7, <2>1, <2>2, <2>a DEF TypeOK, Steps
  <2>4. KeyInv'
    BY <1>7, <2>1 DEF KeyInv, Opened
  <2> QED BY <2>3, <2>4
<1>s. Schema \in SUBSET Item
  BY ItemFacts
<1>8. CASE \E i \in 1 .. 5 : CreateTable(i)
  BY <1>7, <1>8, <1>s, CommitSteps DEF Opened
<1>9. CASE InsertKvKey \/ AddColumn
  BY <1>7, <1>9, <1>s, CommitSteps DEF Opened
<1>10. ASSUME NEW w \in Worker, AddWorker(w) PROVE TypeInv'
  <2>1. Commits({Row(w, key)}) /\ pc = "up" /\ pc' = "up" /\ key \in Nat
    BY <1>10, CommitSteps
  <2>2. {Row(w, key)} \in SUBSET Item
    BY <2>1, ItemFacts
  <2> QED BY <1>7, <2>1, <2>2 DEF Opened
<1>11. CASE Generate
  BY <1>11, <1>f DEF Generate, Goto, TypeOK, File, Steps, KeyInv, Opened
<1>12. CASE WriteCrt
  <2>1. pc = "crt" /\ pair \in Nat
    BY <1>12 DEF WriteCrt, Goto, KeyInv
  <2> QED BY <1>12, <2>1 DEF WriteCrt, Goto, TypeOK, File, Steps, KeyInv, Opened
<1>13. CASE WriteTlsKey
  <2>1. pc \in {"tls key", "write tls key"} /\ pair \in Nat
    BY <1>13 DEF WriteTlsKey, Goto, KeyInv
  <2> QED BY <1>13, <2>1 DEF WriteTlsKey, Goto, TypeOK, File, Steps, KeyInv, Opened
<1>14. CASE Checkpoint
  <2>1. /\ db' = db \cup wal /\ wal' = {} /\ pc' = pc
        /\ UNCHANGED <<key, pair, keyFiles, files, oldDb, oldWal, kvKey, certFiles, made, crashes, history>>
    BY <1>14 DEF Checkpoint
  <2>2. TypeOK'
    BY <2>1 DEF TypeOK
  <2>3. KeyInv'
    BY <2>1 DEF KeyInv
  <2> QED BY <2>2, <2>3
<1>15. CASE Crash
  <2>1. /\ pc' = "down" /\ key' = Absent /\ pair' = Absent
        /\ crashes' = crashes + 1 /\ crashes < MaxCrashes /\ separated' \in BOOLEAN
        /\ UNCHANGED <<keyFiles, dbFiles, certFiles, made, committed>>
    BY <1>15 DEF Crash, TypeOK
  <2>a. crashes' \in 0 .. MaxCrashes
    BY <1>f, <2>1, MaxCrashesAssumption
  <2>b. "down" \in Steps
    BY DEF Steps
  <2>2. TypeOK'
    BY <2>1, <2>a, <2>b DEF TypeOK
  <2>3. KeyInv'
    BY <2>1 DEF KeyInv, Opened
  <2> QED BY <2>2, <2>3
<1>16. CASE UNCHANGED vars
  BY <1>16 DEF vars, TypeOK, KeyInv
<1> QED
  BY <1>1, <1>2, <1>3, <1>4, <1>5, <1>6, <1>8, <1>9, <1>10, <1>11, <1>12, <1>13,
     <1>14, <1>15, <1>16 DEF Next, StartStep, Moves

\* The key and the pair in memory are those of the files, at every stage of a
\* start: the invariant the others build on.
THEOREM TypeInvHolds == Spec => []TypeInv
BY InitTypeInv, StepTypeInv, PTL DEF Spec

\* Files, process and history keep their types.
THEOREM TypeCorrect == Spec => []TypeOK
<1>1. TypeInv => TypeOK
  BY DEF TypeInv
<1> QED BY <1>1, TypeInvHolds, PTL

-----------------------------------------------------------------------------
(* The key *)

\* A row is no table, column or kv entry, and knows its key.
LEMMA RowFacts ==
    /\ \A w \in Worker, k \in Nat : Row(w, k) \notin Schema
    /\ \A v, w \in Worker, j, k \in Nat : Row(v, j) = Row(w, k) => j = k
<1>1. ASSUME NEW w \in Worker, NEW k \in Nat, NEW name PROVE Row(w, k) # Named(name)
  BY DEF Row, Named
<1>2. \A item \in Schema : \E name : item = Named(name)
  BY DEF Schema, Column, KvKey
<1>3. ASSUME NEW v \in Worker, NEW w \in Worker, NEW j \in Nat, NEW k \in Nat,
             Row(v, j) = Row(w, k)
      PROVE  j = k
  BY <1>3 DEF Row
<1> QED BY <1>1, <1>2, <1>3

SecretInv == \A w \in Worker, k \in Nat : Row(w, k) \in OnDisk => k = KeyOnDisk

\* Fewer rows and the same key file.
LEMMA SecretKept ==
    ASSUME SecretInv, UNCHANGED keyFiles,
           \A w \in Worker, k \in Nat : Row(w, k) \in OnDisk' => Row(w, k) \in OnDisk
    PROVE  SecretInv'
<1>1. KeyOnDisk' = KeyOnDisk
  BY DEF KeyOnDisk, keyFiles
<1> QED BY <1>1 DEF SecretInv

\* The steps after which every item on disk was there before.
LEMMA DiskKept ==
    ASSUME \/ RenameDb \/ RenameWal \/ RenameWalFails \/ Open \/ Checkpoint
           \/ UNCHANGED dbFiles
    PROVE  OnDisk' \subseteq OnDisk
BY DEF RenameDb, RenameWal, RenameWalFails, Open, Checkpoint, dbFiles, OnDisk, Visible

LEMMA InitSecretInv == Init => SecretInv
<1> SUFFICES ASSUME Init, NEW w \in Worker, NEW k \in Nat, Row(w, k) \in OnDisk
             PROVE  k = KeyOnDisk
  BY DEF SecretInv
<1>1. Row(w, k) \in oldDb \cup oldWal
  BY DEF Init, OnDisk, Visible
<1>2. Legacy
  BY <1>1 DEF Init, Fresh
<1>3. PICK v \in Worker : Row(w, k) = Row(v, 0)
  BY <1>1, <1>2, LegacyItems, RowFacts
<1>4. k = 0
  BY <1>3, RowFacts
<1> QED BY <1>2, <1>4 DEF Init, KeyOnDisk, Legacy

LEMMA StepSecretInv == TypeInv /\ SecretInv /\ [Next]_vars => SecretInv'
<1> SUFFICES ASSUME TypeInv, SecretInv, [Next]_vars PROVE SecretInv'
  OBVIOUS
<1>1. ASSUME UNCHANGED keyFiles, OnDisk' \subseteq OnDisk PROVE SecretInv'
  BY <1>1, SecretKept
<1>2. ASSUME KeyOnDisk \notin Nat, OnDisk' \subseteq OnDisk PROVE SecretInv'
  BY <1>2 DEF SecretInv
<1>3. CASE Moves \/ ReadKey
  <2>1. UNCHANGED keyFiles /\ UNCHANGED dbFiles
    BY <1>3 DEF Moves, Start, RefuseKey, KeepDb, TablesExist, CertExists, RefusePair,
                ServeWithoutSelfSigned, LoadPair, ReadKey
  <2> QED BY <1>1, <2>1, DiskKept
<1>4. CASE RenameKey
  <2>1. KeyOnDisk' = KeyOnDisk /\ UNCHANGED dbFiles
    BY <1>4 DEF RenameKey, KeyOnDisk
  <2> QED BY <2>1, DiskKept DEF SecretInv
<1>5. CASE CreateKey \/ WriteKey
  <2>1. KeyOnDisk \in {Absent, Torn}
    <3>1. CASE CreateKey
      BY <3>1 DEF CreateKey, KeyOnDisk
    <3>2. CASE WriteKey
      <4>1. keyFile = Torn
        BY <3>2 DEF WriteKey, Goto, TypeInv, KeyInv
      <4> QED BY <4>1, FileAssumption DEF KeyOnDisk
    <3> QED BY <1>5, <3>1, <3>2
  <2>2. UNCHANGED dbFiles
    BY <1>5 DEF CreateKey, WriteKey
  <2> QED BY <1>2, <2>1, <2>2, DiskKept, FileAssumption
<1>6. CASE RenameDb \/ RenameWal \/ RenameWalFails \/ Open \/ Checkpoint
  <2>1. UNCHANGED keyFiles
    BY <1>6 DEF RenameDb, RenameWal, RenameWalFails, Open, Checkpoint
  <2> QED BY <1>1, <1>6, <2>1, DiskKept
<1>7. ASSUME NEW kind, Commits(kind),
             \A w \in Worker, k \in Nat : Row(w, k) \in kind => k = KeyOnDisk
      PROVE  SecretInv'
  <2>1. OnDisk' \subseteq OnDisk \cup kind
    BY <1>7 DEF Commits, Commit, OnDisk, Visible, notWal
  <2>2. KeyOnDisk' = KeyOnDisk
    BY <1>7 DEF Commits, KeyOnDisk, keyFiles
  <2> QED BY <1>7, <2>1, <2>2 DEF SecretInv
<1>8. CASE Commits(Schema)
  BY <1>7, <1>8, RowFacts
<1>9. ASSUME NEW v \in Worker, AddWorker(v) PROVE SecretInv'
  <2>1. Commits({Row(v, key)}) /\ key \in Nat /\ pc = "up"
    BY <1>9, CommitSteps
  <2>2. KeyOnDisk = key
    BY <2>1, FileAssumption DEF TypeInv, KeyInv, KeyOnDisk, Opened
  <2>3. \A w \in Worker, k \in Nat : Row(w, k) \in {Row(v, key)} => k = KeyOnDisk
    BY <2>1, <2>2, RowFacts
  <2> QED BY <1>7, <2>1, <2>3
<1>10. CASE Generate \/ WriteCrt \/ WriteTlsKey \/ Crash \/ UNCHANGED vars
  <2>1. UNCHANGED keyFiles /\ UNCHANGED dbFiles
    BY <1>10 DEF Generate, WriteCrt, WriteTlsKey, Crash, vars
  <2> QED BY <1>1, <2>1, DiskKept
<1> QED
  BY <1>3, <1>4, <1>5, <1>6, <1>8, <1>9, <1>10, CommitSteps DEF Next, StartStep, Moves

\* Whatever crashes, the passwords on disk are encrypted with the key on disk.
THEOREM SecretsReadableHolds == Spec => []SecretsReadable
<1>1. TypeInv /\ SecretInv => SecretsReadable
  <2> SUFFICES ASSUME TypeInv, SecretInv, NEW w \in Worker, NEW k \in 0 .. made,
                      Row(w, k) \in OnDisk
               PROVE  k = KeyOnDisk
    BY DEF SecretsReadable
  <2>1. k \in Nat
    BY DEF TypeInv, TypeOK
  <2> QED BY <2>1 DEF SecretInv
<1>2. Spec => []SecretInv
  BY InitSecretInv, StepSecretInv, TypeInvHolds, PTL DEF Spec
<1> QED BY <1>1, <1>2, TypeInvHolds, PTL

-----------------------------------------------------------------------------
(* Committed items *)

\* Where the main files are, and which logs can still hold something.
LogInv ==
    /\ committed \subseteq OnDisk
    /\ NewName \notin files => db = {} /\ wal = {}
    /\ OldName \notin files => oldDb = {}
    /\ NewName \in files => OldName \notin files
    /\ pc \in Opened => NewName \in files
    /\ pc = "open" => OldName \notin files
    /\ pc = "wal" => NewName \in files /\ wal = {}
    /\ ~separated /\ OldName \notin files /\ pc # "wal" => oldWal = {}

LEMMA InitLogInv == Init => LogInv
<1> SUFFICES ASSUME Init PROVE LogInv
  OBVIOUS
<1>1. pc = "down" /\ db = {} /\ wal = {} /\ committed = oldDb \cup oldWal /\ NewName # OldName
  BY DEF Init, NewName, OldName
<1>2. CASE Fresh
  BY <1>1, <1>2 DEF Fresh, LogInv, OnDisk, Visible, Opened
<1>3. CASE Legacy
  BY <1>1, <1>3 DEF Legacy, LogInv, OnDisk, Visible, Opened
<1> QED BY <1>2, <1>3 DEF Init

LEMMA StepLogInv == TypeInv /\ LogInv /\ [Next]_vars => LogInv'
<1> SUFFICES ASSUME TypeInv, LogInv, [Next]_vars PROVE LogInv'
  OBVIOUS
<1> USE DEF dbFiles, notWal, history, certFiles, keyFiles
<1>n. NewName # OldName /\ files \subseteq {NewName, OldName}
  BY DEF NewName, OldName, TypeInv, TypeOK
<1>1. ASSUME UNCHANGED dbFiles, UNCHANGED history, pc' # "wal", pc' # "open",
             pc # "wal", pc' \in Opened => pc \in Opened
      PROVE  LogInv'
  BY <1>1 DEF LogInv, OnDisk, Visible
<1>2. CASE \/ Start \/ RefuseKey \/ TablesExist \/ CertExists \/ LoadPair \/ RefusePair
           \/ ServeWithoutSelfSigned \/ RenameKey \/ ReadKey \/ CreateKey \/ WriteKey
           \/ Generate \/ WriteCrt \/ WriteTlsKey
  <2>1. /\ UNCHANGED dbFiles /\ UNCHANGED history
        /\ pc \notin {"wal", "open"} /\ pc' \notin {"wal", "open"}
        /\ (pc' \in Opened => pc \in Opened)
    BY <1>2 DEF Start, RefuseKey, TablesExist, CertExists, LoadPair, RefusePair,
                ServeWithoutSelfSigned, RenameKey, ReadKey, CreateKey, WriteKey,
                Generate, WriteCrt, WriteTlsKey, Goto, Opened
  <2> QED BY <1>1, <2>1
<1>3. CASE KeepDb
  BY <1>3 DEF KeepDb, Goto, LogInv, OnDisk, Visible, Opened
<1>4. CASE RenameDb
  BY <1>4, <1>n DEF RenameDb, Goto, LogInv, OnDisk, Visible, Opened
<1>5. CASE RenameWal
  BY <1>5, <1>n DEF RenameWal, Goto, LogInv, OnDisk, Visible, Opened
<1>6. CASE RenameWalFails
  BY <1>6, <1>n DEF RenameWalFails, Goto, LogInv, OnDisk, Visible, Opened
<1>7. CASE Open
  BY <1>7, <1>n DEF Open, Goto, LogInv, OnDisk, Visible, Opened
<1>8. ASSUME NEW kind, Commits(kind), pc \in Opened, pc' \in Opened PROVE LogInv'
  <2>1. PICK items \in SUBSET kind :
          /\ wal' = wal \cup items /\ committed' = committed \cup items
          /\ UNCHANGED <<files, db, oldDb, oldWal, separated>>
    BY <1>8 DEF Commits, Commit
  <2>2. pc \notin {"open", "wal"} /\ pc' \notin {"open", "wal"}
    BY <1>8 DEF Opened
  <2>3. committed' \subseteq OnDisk'
    BY <2>1 DEF LogInv, OnDisk, Visible
  <2> QED BY <1>8, <2>1, <2>2, <2>3 DEF LogInv
<1>9. CASE \/ \E i \in 1 .. 5 : CreateTable(i)
           \/ InsertKvKey \/ AddColumn \/ \E w \in Worker : AddWorker(w)
  <2>1. \E kind : Commits(kind) /\ pc \in Opened /\ pc' \in Opened
    BY <1>9, CommitSteps DEF Opened
  <2> QED BY <1>8, <2>1
<1>10. CASE Checkpoint
  BY <1>10, <1>n DEF Checkpoint, LogInv, OnDisk, Visible, Opened
<1>11. CASE Crash
  BY <1>11 DEF Crash, LogInv, OnDisk, Visible, Opened
<1>12. CASE UNCHANGED vars
  BY <1>12 DEF vars, LogInv, OnDisk, Visible
<1> QED
  BY <1>2, <1>3, <1>4, <1>5, <1>6, <1>7, <1>9, <1>10, <1>11, <1>12 DEF Next, StartStep

\* A later server sees everything that was committed, unless the log of the
\* old database was left behind.
THEOREM CommittedVisibleHolds == Spec => []CommittedVisible
<1>1. LogInv => CommittedVisible
  BY DEF LogInv, CommittedVisible, OnDisk, Opened
<1>2. Spec => []LogInv
  BY InitLogInv, StepLogInv, TypeInvHolds, PTL DEF Spec
<1> QED BY <1>1, <1>2, PTL

-----------------------------------------------------------------------------
(* The schema *)

\* What the migration has reached, whichever start has done it.
SchemaInv ==
    /\ pc \in Opened \ {"tables"} => \A i \in 1 .. 5 : Named(Tables[i]) \in Visible
    /\ pc \in Opened \ {"tables", "kv"} => KvKey \in Visible
    /\ pc \in Opened \ {"tables", "kv", "column"} => Column \in Visible

LEMMA StepSchemaInv == SchemaInv /\ [Next]_vars => SchemaInv'
<1> SUFFICES ASSUME SchemaInv, [Next]_vars PROVE SchemaInv'
  OBVIOUS
<1> USE DEF dbFiles, notWal
<1>1. CASE \/ Start \/ RenameKey \/ ReadKey \/ RefuseKey \/ CreateKey \/ WriteKey
           \/ RenameDb \/ KeepDb \/ RenameWal \/ RenameWalFails \/ Open \/ RefusePair \/ Crash
  <2>1. pc' \notin Opened \ {"tables"}
    BY <1>1 DEF Start, RenameKey, ReadKey, RefuseKey, CreateKey, WriteKey, RenameDb, KeepDb,
                RenameWal, RenameWalFails, Open, RefusePair, Crash, Goto, Opened
  <2> QED BY <2>1 DEF SchemaInv
<1>2. CASE \E i \in 1 .. 5 : CreateTable(i)
  <2>1. pc' = "tables"
    BY <1>2 DEF CreateTable, Goto
  <2> QED BY <2>1 DEF SchemaInv
<1>3. CASE TablesExist
  BY <1>3 DEF TablesExist, Goto, SchemaInv, Visible
<1>4. CASE InsertKvKey
  <2>1. Visible \subseteq Visible' /\ KvKey \in Visible' /\ pc = "kv" /\ pc' = "column"
    BY <1>4 DEF InsertKvKey, Goto, Commit, Visible
  <2> QED BY <2>1 DEF SchemaInv, Opened
<1>5. CASE AddColumn
  <2>1. Visible \subseteq Visible' /\ Column \in Visible' /\ pc = "column" /\ pc' = "cert"
    BY <1>5 DEF AddColumn, Goto, Commit, Visible
  <2> QED BY <2>1 DEF SchemaInv, Opened
<1>6. CASE \/ Generate \/ CertExists \/ WriteCrt \/ WriteTlsKey \/ LoadPair
           \/ ServeWithoutSelfSigned
  <2>1. UNCHANGED Visible /\ pc \in Opened \ {"tables", "kv", "column"}
    BY <1>6 DEF Generate, CertExists, WriteCrt, WriteTlsKey, LoadPair,
                ServeWithoutSelfSigned, Goto, Opened, Visible
  <2> QED BY <2>1 DEF SchemaInv
<1>7. CASE Checkpoint \/ UNCHANGED vars \/ \E w \in Worker : AddWorker(w)
  <2>1. Visible \subseteq Visible' /\ pc' = pc
    BY <1>7 DEF Checkpoint, AddWorker, Commit, Visible, vars
  <2> QED BY <2>1 DEF SchemaInv
<1> QED
  BY <1>1, <1>2, <1>3, <1>4, <1>5, <1>6, <1>7 DEF Next, StartStep

\* A server that is up has its whole schema, however often a migration was
\* cut off before.
THEOREM SchemaCompleteHolds == Spec => []SchemaComplete
<1>1. Init => SchemaInv
  BY DEF Init, SchemaInv, Opened
<1>2. SchemaInv => SchemaComplete
  BY DEF SchemaInv, SchemaComplete, Schema, Opened
<1> QED BY <1>1, <1>2, StepSchemaInv, PTL DEF Spec

-----------------------------------------------------------------------------
(* The certificate *)

PairInv ==
    /\ tlsKey # Absent => crt \in Nat /\ (tlsKey \in Nat => tlsKey = crt)
    /\ pc \in {"crt", "tls key"} => tlsKey = Absent
    /\ pc \in {"tls key", "write tls key"} => crt = pair
    /\ pc = "write tls key" => tlsKey = Torn

LEMMA StepPairInv == TypeInv /\ PairInv /\ [Next]_vars => PairInv'
<1> SUFFICES ASSUME TypeInv, PairInv, [Next]_vars PROVE PairInv'
  OBVIOUS
<1> USE DEF certFiles
<1>1. ASSUME UNCHANGED certFiles, pc' \notin {"crt", "tls key", "write tls key"} PROVE PairInv'
  BY <1>1 DEF PairInv
<1>2. CASE \/ Moves \/ RenameKey \/ ReadKey \/ CreateKey \/ WriteKey \/ RenameDb
           \/ RenameWal \/ RenameWalFails \/ Open \/ Crash
  <2>1. UNCHANGED certFiles
    BY <1>2 DEF Moves, Start, RefuseKey, KeepDb, TablesExist, CertExists, RefusePair,
         ServeWithoutSelfSigned, LoadPair, RenameKey, ReadKey, CreateKey, WriteKey, RenameDb,
         RenameWal, RenameWalFails, Open, Crash, Goto
  <2>2. pc' \notin {"crt", "tls key", "write tls key"}
    <3>1. CASE Moves
      BY <3>1 DEF Moves, Start, RefuseKey, KeepDb, TablesExist, CertExists, RefusePair,
           ServeWithoutSelfSigned, LoadPair, Goto
    <3>2. CASE RenameKey \/ ReadKey \/ CreateKey \/ WriteKey \/ RenameDb
      BY <3>2 DEF RenameKey, ReadKey, CreateKey, WriteKey, RenameDb, Goto
    <3>3. CASE RenameWal \/ RenameWalFails \/ Open \/ Crash
      BY <3>3 DEF RenameWal, RenameWalFails, Open, Crash, Goto
    <3> QED BY <1>2, <3>1, <3>2, <3>3
  <2> QED BY <1>1, <2>1, <2>2
<1>3. ASSUME NEW kind, Commits(kind), pc' \in {"tables", "column", "cert", "up"} PROVE PairInv'
  <2>1. UNCHANGED certFiles
    BY <1>3 DEF Commits
  <2> QED BY <1>1, <1>3, <2>1
<1>4. CASE \/ \E i \in 1 .. 5 : CreateTable(i)
           \/ InsertKvKey \/ AddColumn \/ \E w \in Worker : AddWorker(w)
  BY <1>3, <1>4, CommitSteps
<1>5. CASE Generate
  BY <1>5, FileAssumption DEF Generate, Goto, PairInv
<1>6. CASE WriteCrt
  <2>1. pc = "crt" /\ tlsKey = Absent /\ tlsKey' = Absent /\ pair' = pair
    BY <1>6 DEF WriteCrt, Goto, PairInv
  <2>2. pc' = "crt" \/ (pc' = "tls key" /\ crt' = pair)
    BY <1>6 DEF WriteCrt, Goto
  <2> QED BY <2>1, <2>2 DEF PairInv
<1>7. CASE WriteTlsKey
  <2>1. pair \in Nat /\ crt = pair /\ crt' = crt /\ pair' = pair
    BY <1>7 DEF WriteTlsKey, Goto, PairInv, TypeInv, KeyInv
  <2>2. \/ pc' = "write tls key" /\ tlsKey' = Torn
        \/ pc' = "load" /\ tlsKey' = pair
    BY <1>7 DEF WriteTlsKey, Goto
  <2> QED BY <2>1, <2>2, FileAssumption DEF PairInv
<1>8. CASE Checkpoint \/ UNCHANGED vars
  <2>1. UNCHANGED certFiles /\ pc' = pc /\ pair' = pair
    BY <1>8 DEF Checkpoint, vars
  <2> QED BY <2>1 DEF PairInv
<1> QED
  BY <1>2, <1>4, <1>5, <1>6, <1>7, <1>8 DEF Next, StartStep, Moves

\* Certificate and key on disk belong together, whatever crashes.
THEOREM PairMatchesHolds == Spec => []PairMatches
<1>1. Init => PairInv
  BY DEF Init, PairInv
<1>2. PairInv => PairMatches
  BY FileAssumption DEF PairInv, PairMatches
<1> QED BY <1>1, <1>2, StepPairInv, TypeInvHolds, PTL DEF Spec

-----------------------------------------------------------------------------
(* Starts over a completed directory *)

LEMMA FirstKey == TypeInv /\ [Next]_vars => (keyFile \in Nat => keyFile' = keyFile)
<1> SUFFICES ASSUME TypeInv, [Next]_vars, keyFile \in Nat PROVE keyFile' = keyFile
  OBVIOUS
<1> USE DEF keyFiles
<1>1. ~RenameKey /\ ~CreateKey
  BY FileAssumption DEF RenameKey, CreateKey
<1>2. ~WriteKey
  BY FileAssumption DEF WriteKey, Goto, TypeInv, KeyInv
<1>3. CASE Moves \/ ReadKey \/ RenameDb \/ RenameWal \/ RenameWalFails \/ Open
  BY <1>3 DEF Moves, Start, RefuseKey, KeepDb, TablesExist, CertExists, RefusePair,
       ServeWithoutSelfSigned, LoadPair, ReadKey, RenameDb, RenameWal, RenameWalFails, Open
<1>4. CASE \/ \E i \in 1 .. 5 : CreateTable(i)
           \/ InsertKvKey \/ AddColumn \/ \E w \in Worker : AddWorker(w)
  <2>1. \E kind : Commits(kind)
    BY <1>4, CommitSteps
  <2> QED BY <2>1 DEF Commits
<1>5. CASE Generate \/ WriteCrt \/ WriteTlsKey \/ Checkpoint \/ Crash \/ UNCHANGED vars
  BY <1>5 DEF Generate, WriteCrt, WriteTlsKey, Checkpoint, Crash, vars
<1> QED BY <1>1, <1>2, <1>3, <1>4, <1>5 DEF Next, StartStep, Moves

LEMMA FirstPair ==
    PairInv /\ [Next]_vars => (crt \in Nat /\ tlsKey \in Nat => UNCHANGED certFiles)
<1> SUFFICES ASSUME PairInv, [Next]_vars, crt \in Nat, tlsKey \in Nat
             PROVE  UNCHANGED certFiles
  OBVIOUS
<1>1. ~WriteCrt /\ ~WriteTlsKey
  BY FileAssumption DEF WriteCrt, WriteTlsKey, Goto, PairInv
<1>2. CASE Moves \/ RenameKey \/ ReadKey \/ CreateKey \/ WriteKey \/ Generate
  BY <1>2 DEF Moves, Start, RefuseKey, KeepDb, TablesExist, CertExists, RefusePair,
       ServeWithoutSelfSigned, LoadPair, RenameKey, ReadKey, CreateKey, WriteKey, Generate
<1>3. CASE \/ RenameDb \/ RenameWal \/ RenameWalFails \/ Open \/ Checkpoint \/ Crash
           \/ UNCHANGED vars
  BY <1>3 DEF RenameDb, RenameWal, RenameWalFails, Open, Checkpoint, Crash, vars
<1>4. CASE \/ \E i \in 1 .. 5 : CreateTable(i)
           \/ InsertKvKey \/ AddColumn \/ \E w \in Worker : AddWorker(w)
  BY <1>4 DEF CreateTable, InsertKvKey, AddColumn, AddWorker
<1> QED BY <1>1, <1>2, <1>3, <1>4 DEF Next, StartStep, Moves

LEMMA FirstMigration ==
    LogInv /\ [Next]_vars
      => (Schema \subseteq Visible /\ pc \notin {"wal", "up"} => UNCHANGED dbFiles)
<1> SUFFICES ASSUME LogInv, [Next]_vars, Schema \subseteq Visible, pc \notin {"wal", "up"}
             PROVE  UNCHANGED dbFiles
  OBVIOUS
<1> USE DEF dbFiles, notWal
<1>1. \E item : item \in db \cup wal
  BY ItemFacts DEF Visible
<1>2. NewName \in files
  BY <1>1 DEF LogInv
<1>3. ~\E i \in 1 .. 5 : CreateTable(i)
  BY DEF CreateTable, Schema
<1>4. CASE InsertKvKey \/ AddColumn
  BY <1>4, ItemFacts DEF InsertKvKey, AddColumn
<1>5. CASE Moves \/ RenameKey \/ ReadKey \/ CreateKey \/ WriteKey \/ Generate
  BY <1>5 DEF Moves, Start, RefuseKey, KeepDb, TablesExist, CertExists, RefusePair,
       ServeWithoutSelfSigned, LoadPair, RenameKey, ReadKey, CreateKey, WriteKey, Generate
<1>6. ~RenameDb /\ ~RenameWal /\ ~RenameWalFails /\ ~Checkpoint /\ ~\E w \in Worker : AddWorker(w)
  BY <1>2 DEF RenameDb, RenameWal, RenameWalFails, Checkpoint, AddWorker, Goto
<1>7. CASE Open
  BY <1>2, <1>7 DEF Open
<1>8. CASE WriteCrt \/ WriteTlsKey \/ Crash \/ UNCHANGED vars
  BY <1>8 DEF WriteCrt, WriteTlsKey, Crash, vars
<1> QED BY <1>3, <1>4, <1>5, <1>6, <1>7, <1>8 DEF Next, StartStep, Moves

\* What one start has completed stays as it is in all later ones.
THEOREM FirstRunOnlyHolds == Spec => FirstRunOnly
<1> DEFINE A == /\ keyFile \in Nat => keyFile' = keyFile
                /\ crt \in Nat /\ tlsKey \in Nat => UNCHANGED certFiles
                /\ Schema \subseteq Visible /\ pc \notin {"wal", "up"} => UNCHANGED dbFiles
<1>1. TypeInv /\ PairInv /\ LogInv /\ [Next]_vars => [A]_vars
  BY FirstKey, FirstPair, FirstMigration
<1>2. Spec => []TypeInv
  BY TypeInvHolds
<1>3. Init => PairInv
  BY DEF Init, PairInv
<1>4. Spec => []PairInv
  BY <1>2, <1>3, StepPairInv, PTL DEF Spec
<1>5. Spec => []LogInv
  BY <1>2, InitLogInv, StepLogInv, PTL DEF Spec
<1> QED BY <1>1, <1>2, <1>4, <1>5, PTL DEF Spec, FirstRunOnly

-----------------------------------------------------------------------------
(* That the program is up at last.  tlapm cannot say when an action is        *)
(* ENABLED, so the theorem assumes of weak fairness what FairStepsReady       *)
(* states: a start that is not over can go on.  How far each step takes the   *)
(* start, for any number of workers and crashes, is proved.                   *)

\* A start that reaches the certificate has both of its files.
LoadInv == pc = "load" => crt # Absent /\ tlsKey # Absent

\* A file that a crash has torn, and that the process is not about to write.
TornKey == keyFile = Torn /\ pc # "write key"
TornTls == tlsKey = Torn /\ pc # "write tls key"

Inv == TypeInv /\ PairInv /\ LoadInv

LEMMA StepLoadInv == TypeInv /\ PairInv /\ LoadInv /\ [Next]_vars => LoadInv'
<1> SUFFICES ASSUME TypeInv, PairInv, LoadInv, [Next]_vars, pc' = "load"
             PROVE  crt' # Absent /\ tlsKey' # Absent
  BY DEF LoadInv
<1>1. CASE CertExists
  BY <1>1 DEF CertExists, certFiles
<1>2. CASE WriteTlsKey
  BY <1>2, FileAssumption DEF WriteTlsKey, Goto, TypeInv, KeyInv, PairInv
<1>3. CASE Checkpoint \/ UNCHANGED vars
  BY <1>3 DEF Checkpoint, vars, certFiles, LoadInv
<1>4. CASE Moves \/ RenameKey \/ ReadKey \/ CreateKey \/ WriteKey \/ Generate
  BY <1>1, <1>4 DEF Moves, Start, RefuseKey, KeepDb, TablesExist, RefusePair, LoadPair,
       ServeWithoutSelfSigned, RenameKey, ReadKey, CreateKey, WriteKey, Generate, Goto
<1>5. CASE \/ RenameDb \/ RenameWal \/ RenameWalFails \/ Open \/ WriteCrt \/ Crash
  BY <1>5 DEF RenameDb, RenameWal, RenameWalFails, Open, WriteCrt, Crash, Goto
<1>6. CASE \/ \E i \in 1 .. 5 : CreateTable(i)
           \/ InsertKvKey \/ AddColumn \/ \E w \in Worker : AddWorker(w)
  BY <1>6, CommitSteps
<1> QED BY <1>1, <1>2, <1>3, <1>4, <1>5, <1>6 DEF Next, StartStep, Moves

LEMMA InvHolds == Spec => []Inv
<1>1. Init => PairInv /\ LoadInv
  BY DEF Init, PairInv, LoadInv
<1>2. Inv <=> TypeInv /\ PairInv /\ LoadInv
  BY DEF Inv
<1> QED BY <1>1, <1>2, StepPairInv, StepLoadInv, TypeInvHolds, PTL DEF Spec

\* Nothing writes a torn file again.
LEMMA TornStays ==
    Inv /\ [Next]_vars => (TornKey => TornKey') /\ (TornTls => TornTls')
<1> SUFFICES ASSUME Inv, [Next]_vars
             PROVE  (TornKey => TornKey') /\ (TornTls => TornTls')
  OBVIOUS
<1> USE DEF Inv, TornKey, TornTls, keyFiles, certFiles
<1>1. CASE RenameKey \/ CreateKey
  BY <1>1, FileAssumption DEF RenameKey, CreateKey, Goto
<1>2. CASE WriteKey
  BY <1>2 DEF WriteKey, Goto
<1>3. CASE WriteCrt
  BY <1>3, FileAssumption DEF WriteCrt, Goto, PairInv
<1>4. CASE WriteTlsKey
  BY <1>4, FileAssumption DEF WriteTlsKey, Goto, PairInv
<1>5. CASE Generate
  BY <1>5 DEF Generate, Goto
<1>6. CASE Moves \/ ReadKey \/ RenameDb
  BY <1>6 DEF Moves, Start, RefuseKey, KeepDb, TablesExist, CertExists, RefusePair,
       ServeWithoutSelfSigned, LoadPair, ReadKey, RenameDb, Goto
<1>7. CASE \/ RenameWal \/ RenameWalFails \/ Open \/ Crash
  BY <1>7 DEF RenameWal, RenameWalFails, Open, Crash, Goto
<1>8. CASE \/ \E i \in 1 .. 5 : CreateTable(i)
           \/ InsertKvKey \/ AddColumn \/ \E w \in Worker : AddWorker(w)
  BY <1>8, CommitSteps DEF CreateTable, InsertKvKey, AddColumn, AddWorker
<1>9. CASE Checkpoint \/ UNCHANGED vars
  BY <1>9 DEF Checkpoint, vars
<1> QED
  BY <1>1, <1>2, <1>3, <1>4, <1>5, <1>6, <1>7, <1>8, <1>9 DEF Next, StartStep, Moves

\* Where a step that is no crash and finds no torn file may take the start.
Way ==
    {<<"down", "key">>, <<"key", "write key">>, <<"key", "db">>, <<"write key", "db">>,
     <<"db", "wal">>, <<"db", "open">>, <<"wal", "open">>, <<"open", "tables">>,
     <<"tables", "kv">>, <<"kv", "column">>, <<"column", "cert">>,
     <<"cert", "crt">>, <<"cert", "load">>, <<"cert", "up">>, <<"crt", "tls key">>,
     <<"tls key", "write tls key">>, <<"write tls key", "load">>, <<"load", "up">>}

Whole == ~TornKey /\ ~TornTls

LEMMA StartMoves ==
  ASSUME Inv, Whole, [Next]_vars, crashes' = crashes
  PROVE  pc' = pc \/ <<pc, pc'>> \in Way
<1> USE DEF Goto, Way
<1>1. CASE Start \/ RenameKey \/ ReadKey \/ CreateKey \/ WriteKey
  BY <1>1 DEF Start, RenameKey, ReadKey, CreateKey, WriteKey
<1>2. CASE RefuseKey
  BY <1>2 DEF RefuseKey, Whole, TornKey
<1>3. CASE RenameDb \/ KeepDb \/ RenameWal \/ RenameWalFails \/ Open
  BY <1>3 DEF RenameDb, KeepDb, RenameWal, RenameWalFails, Open
<1>4. CASE (\E i \in 1 .. 5 : CreateTable(i)) \/ TablesExist \/ InsertKvKey \/ AddColumn
  BY <1>4, CommitSteps DEF TablesExist
<1>5. CASE Generate \/ CertExists \/ ServeWithoutSelfSigned
  BY <1>5 DEF Generate, CertExists, ServeWithoutSelfSigned
<1>6. CASE WriteCrt \/ WriteTlsKey \/ LoadPair
  BY <1>6 DEF WriteCrt, WriteTlsKey, LoadPair
<1>7. CASE RefusePair
  <2>1. pc = "load" /\ crt \in Nat /\ (crt = Torn \/ tlsKey = Torn)
    BY <1>7 DEF RefusePair, Inv, LoadInv, PairInv
  <2> QED BY <2>1, FileAssumption DEF Whole, TornTls
<1>8. CASE Checkpoint \/ (\E w \in Worker : AddWorker(w)) \/ UNCHANGED vars
  BY <1>8 DEF Checkpoint, AddWorker, vars
<1>9. ~Crash
  BY DEF Crash, Inv, TypeInv, TypeOK
<1> QED
  BY <1>1, <1>2, <1>3, <1>4, <1>5, <1>6, <1>7, <1>8, <1>9 DEF Next, StartStep

\* The tables the migration has created are the first ones.
Done(i) == \A j \in 1 .. i : Named(Tables[j]) \in Visible

\* The steps that leave the start in its stage.
LEMMA StageSteps ==
  ASSUME [Next]_vars, pc' = pc, pc # "up"
  PROVE  RenameKey \/ (\E i \in 1 .. 5 : CreateTable(i)) \/ WriteCrt \/ UNCHANGED vars
<1> USE DEF Goto
<1>1. ~Start /\ ~ReadKey /\ ~RefuseKey /\ ~CreateKey /\ ~WriteKey
  BY DEF Start, ReadKey, RefuseKey, CreateKey, WriteKey
<1>2. ~RenameDb /\ ~KeepDb /\ ~RenameWal /\ ~RenameWalFails /\ ~Open
  BY DEF RenameDb, KeepDb, RenameWal, RenameWalFails, Open
<1>3. ~TablesExist /\ ~InsertKvKey /\ ~AddColumn /\ ~Generate /\ ~CertExists
  BY DEF TablesExist, InsertKvKey, AddColumn, Generate, CertExists
<1>4. ~WriteTlsKey /\ ~LoadPair /\ ~RefusePair /\ ~ServeWithoutSelfSigned /\ ~Crash
  BY DEF WriteTlsKey, LoadPair, RefusePair, ServeWithoutSelfSigned, Crash
<1>5. ~Checkpoint /\ ~\E w \in Worker : AddWorker(w)
  BY DEF Checkpoint, AddWorker
<1> QED
  BY <1>1, <1>2, <1>3, <1>4, <1>5 DEF Next, StartStep

\* What is done within a stage stays done while the start is in it.
LEMMA StageKeeps ==
  ASSUME [Next]_vars, pc' = pc
  PROVE  /\ pc = "key" /\ keyFile # Absent => keyFile' # Absent
         /\ pc = "crt" /\ crt = Torn => crt' = Torn
         /\ pc = "tables" => \A i \in 0 .. 5 : Done(i) => Done(i)'
<1>1. CASE RenameKey
  BY <1>1 DEF RenameKey, Goto
<1>2. CASE WriteCrt
  BY <1>2 DEF WriteCrt, Goto
<1>3. CASE \E i \in 1 .. 5 : CreateTable(i)
  <2>1. Visible \subseteq Visible' /\ pc = "tables"
    BY <1>3 DEF CreateTable, Commit, Goto, Visible, notWal
  <2> QED BY <2>1 DEF Done
<1>4. CASE UNCHANGED vars
  BY <1>4 DEF vars, keyFiles, certFiles, dbFiles, Visible, Done
<1> QED BY <1>1, <1>2, <1>3, <1>4, StageSteps

\* What a step of the start brings about.
LEMMA StartProgress ==
  ASSUME Inv, Whole, StartStep, vars' # vars
  PROVE  /\ pc \notin {"key", "crt", "tables"} => pc' # pc
         /\ pc = "key" => pc' # pc \/ (keyFile = Absent /\ keyFile' # Absent)
         /\ pc = "crt" => pc' # pc \/ (crt # Torn /\ crt' = Torn)
         /\ pc = "tables" /\ Done(5) => pc' # pc
         /\ pc = "tables" => \A i \in 0 .. 4 : Done(i) => pc' # pc \/ Done(i + 1)'
<1> USE DEF Goto
<1>1. CASE Start \/ ReadKey \/ RefuseKey \/ CreateKey \/ WriteKey
  BY <1>1 DEF Start, ReadKey, RefuseKey, CreateKey, WriteKey
<1>2. CASE RenameKey
  BY <1>2 DEF RenameKey
<1>3. CASE RenameDb \/ KeepDb \/ RenameWal \/ Open
  BY <1>3 DEF RenameDb, KeepDb, RenameWal, Open
<1>4. CASE TablesExist \/ InsertKvKey \/ AddColumn
  BY <1>4, CommitSteps DEF TablesExist
<1>5. ASSUME NEW k \in 1 .. 5, CreateTable(k)
      PROVE  /\ pc = "tables" /\ ~Done(5)
             /\ \A i \in 0 .. 4 : Done(i) => Done(i + 1)'
  <2>1. /\ pc = "tables" /\ Named(Tables[k]) \notin Visible
        /\ \A j \in 1 .. k - 1 : Named(Tables[j]) \in Visible
        /\ Visible \subseteq Visible' /\ Named(Tables[k]) \in Visible'
    BY <1>5, ItemFacts DEF CreateTable, Commit, Visible, notWal
  <2>2. ASSUME NEW i \in 0 .. 4, Done(i) PROVE Done(i + 1)'
    <3>1. i < k
      BY <2>1, <2>2 DEF Done
    <3>2. \A j \in 1 .. i + 1 : j \in 1 .. k
      BY <3>1
    <3> QED BY <2>1, <3>2 DEF Done
  <2> QED BY <2>1, <2>2 DEF Done
<1>6. CASE Generate \/ CertExists \/ WriteTlsKey \/ LoadPair \/ RefusePair
  BY <1>6 DEF Generate, CertExists, WriteTlsKey, LoadPair, RefusePair
<1>7. CASE WriteCrt
  <2>1. pc = "crt"
    BY <1>7 DEF WriteCrt
  <2>2. CASE pc' = pc
    BY <1>7, <2>2 DEF WriteCrt, vars, certFiles
  <2> QED BY <2>1, <2>2
<1> QED
  BY <1>1, <1>2, <1>3, <1>4, <1>5, <1>6, <1>7 DEF StartStep

\* No crash any more, and no torn file to refuse.
Calm == Inv /\ Whole /\ [Next]_vars /\ [crashes' = crashes]_vars

LEMMA CalmMoves ==
  Calm =>
    /\ pc = "down" => (pc = "down")' \/ (pc = "key")'
    /\ pc = "key" => (pc = "key")' \/ (pc = "write key")' \/ (pc = "db")'
    /\ pc = "write key" => (pc = "write key")' \/ (pc = "db")'
    /\ pc = "db" => (pc = "db")' \/ (pc = "wal")' \/ (pc = "open")'
    /\ pc = "wal" => (pc = "wal")' \/ (pc = "open")'
    /\ pc = "open" => (pc = "open")' \/ (pc = "tables")'
    /\ pc = "tables" => (pc = "tables")' \/ (pc = "kv")'
    /\ pc = "kv" => (pc = "kv")' \/ (pc = "column")'
    /\ pc = "column" => (pc = "column")' \/ (pc = "cert")'
    /\ pc = "cert" => (pc = "cert")' \/ (pc = "crt")' \/ (pc = "load")' \/ (pc = "up")'
    /\ pc = "crt" => (pc = "crt")' \/ (pc = "tls key")'
    /\ pc = "tls key" => (pc = "tls key")' \/ (pc = "write tls key")'
    /\ pc = "write tls key" => (pc = "write tls key")' \/ (pc = "load")'
    /\ pc = "load" => (pc = "load")' \/ (pc = "up")'
<1> SUFFICES ASSUME Calm PROVE pc' = pc \/ <<pc, pc'>> \in Way
  BY DEF Way
<1>1. crashes' = crashes
  BY DEF Calm, vars
<1> QED
  BY <1>1, StartMoves DEF Calm

LEMMA CalmKeeps ==
  Calm =>
    /\ pc = "key" /\ ~(keyFile = Absent) => ~(pc = "key")' \/ ~(keyFile = Absent)'
    /\ pc = "crt" /\ crt = Torn => ~(pc = "crt")' \/ (crt = Torn)'
    /\ pc = "tables" =>
         /\ Done(0) => ~(pc = "tables")' \/ Done(0)'
         /\ Done(1) => ~(pc = "tables")' \/ Done(1)'
         /\ Done(2) => ~(pc = "tables")' \/ Done(2)'
         /\ Done(3) => ~(pc = "tables")' \/ Done(3)'
         /\ Done(4) => ~(pc = "tables")' \/ Done(4)'
         /\ Done(5) => ~(pc = "tables")' \/ Done(5)'
BY StageKeeps DEF Calm

LEMMA CalmProgress ==
  Calm /\ <<StartStep>>_vars =>
    /\ pc = "down" => ~(pc = "down")'
    /\ pc = "write key" => ~(pc = "write key")'
    /\ pc = "db" => ~(pc = "db")'
    /\ pc = "wal" => ~(pc = "wal")'
    /\ pc = "open" => ~(pc = "open")'
    /\ pc = "kv" => ~(pc = "kv")'
    /\ pc = "column" => ~(pc = "column")'
    /\ pc = "cert" => ~(pc = "cert")'
    /\ pc = "tls key" => ~(pc = "tls key")'
    /\ pc = "write tls key" => ~(pc = "write tls key")'
    /\ pc = "load" => ~(pc = "load")'
BY StartProgress DEF Calm

LEMMA CalmProgressWithin ==
  Calm /\ <<StartStep>>_vars =>
    /\ pc = "key" => ~(pc = "key")' \/ (keyFile = Absent /\ ~(keyFile = Absent)')
    /\ pc = "crt" => ~(pc = "crt")' \/ (~(crt = Torn) /\ (crt = Torn)')
    /\ pc = "tables" =>
         /\ Done(0) => ~(pc = "tables")' \/ Done(1)'
         /\ Done(1) => ~(pc = "tables")' \/ Done(2)'
         /\ Done(2) => ~(pc = "tables")' \/ Done(3)'
         /\ Done(3) => ~(pc = "tables")' \/ Done(4)'
         /\ Done(4) => ~(pc = "tables")' \/ Done(5)'
         /\ Done(5) => ~(pc = "tables")'
<1> SUFFICES ASSUME Calm, StartStep, vars' # vars
             PROVE  /\ pc = "key" => pc' # pc \/ (keyFile = Absent /\ keyFile' # Absent)
                    /\ pc = "crt" => pc' # pc \/ (crt # Torn /\ crt' = Torn)
                    /\ pc = "tables" /\ Done(5) => pc' # pc
                    /\ pc = "tables" => \A i \in 0 .. 4 : Done(i) => pc' # pc \/ Done(i + 1)'
  OBVIOUS
<1> QED
  BY StartProgress DEF Calm

\* The start goes through its stages.
LEMMA StartEnds ==
  [][Next]_vars /\ [][crashes' = crashes]_vars /\ []Inv /\ []Whole
    /\ []FairStepsReady /\ WF_vars(StartStep) => <>(pc = "up")
<1>1. Inv => \/ pc = "down" \/ pc = "key" \/ pc = "write key" \/ pc = "db" \/ pc = "wal"
             \/ pc = "open" \/ pc = "tables" \/ pc = "kv" \/ pc = "column" \/ pc = "cert"
             \/ pc = "crt" \/ pc = "tls key" \/ pc = "write tls key" \/ pc = "load"
             \/ pc = "up"
  BY DEF Inv, TypeInv, TypeOK, Steps
<1>2. FairStepsReady => (~(pc = "up") => ENABLED <<StartStep>>_vars)
  BY DEF FairStepsReady
<1>3. Calm <=> Inv /\ Whole /\ [Next]_vars /\ [crashes' = crashes]_vars
  BY DEF Calm
<1>4. Done(0)
  BY DEF Done
<1> QED
  BY <1>1, <1>2, <1>3, <1>4, CalmMoves, CalmKeeps, CalmProgress, CalmProgressWithin, PTL

\* A program that is started again and again, and crashes no more (the bound
\* MaxCrashes in the model sees to that), is up again and again, unless a crash
\* has left the key file or the certificate's key without its content.
THEOREM StartsUnlessTornHolds ==
    FairSpec /\ []FairStepsReady /\ <>[][crashes' = crashes]_vars => StartsUnlessTorn
<1>1. Whole <=> ~TornKey /\ ~TornTls
  BY DEF Whole
<1>2. (TornKey => (keyFile = Torn \/ tlsKey = Torn)) /\ (TornTls => (keyFile = Torn \/ tlsKey = Torn))
  BY DEF TornKey, TornTls
<1> QED
  BY <1>1, <1>2, TornStays, StartEnds, InvHolds, PTL DEF FairSpec, Spec, StartsUnlessTorn
=============================================================================
