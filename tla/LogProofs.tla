----------------------------- MODULE LogProofs -----------------------------
(* The log implements AtomicDisk, for any blocks, contents, operations and *)
(* sizes: the inductive invariant LogInv, and the step simulation.         *)
EXTENDS Log, FiniteSetTheorems, TLAPS

(* The parts of LogInv about lh and head, and about committing.            *)
SizeInv ==
    /\ Injective(lh) /\ Injective(head)
    /\ Len(lh) <= LogSize /\ Len(head) <= LogSize

CommitterInv ==
    /\ committing <=> phase \in CommitPhases
    /\ phase # "idle" => Outstanding = {}
    /\ phase = "idle" /\ Outstanding = {} => lh = <<>>

(* The two outcomes of log_write().                                        *)
LogWritten(o, b, v) ==
    /\ Up /\ op[o] = "in" /\ MayWrite(o, b)
    /\ ~LogFull
    /\ cache' = [cache EXCEPT ![b] = v]
    /\ lh' = IF b \in Rng(lh) THEN lh ELSE Append(lh, b)
    /\ wrote' = [wrote EXCEPT ![o] = @ \cup {b}]
    /\ UNCHANGED <<diskVars, op, committing, phase, tail, panicked>>

LogWritePanics(o, b) ==
    /\ Up /\ op[o] = "in" /\ MayWrite(o, b)
    /\ LogFull
    /\ panicked' = TRUE
    /\ UNCHANGED <<diskVars, cache, lh, op, wrote, committing, phase, tail>>

(* What an operation may do.                                               *)
LEMMA OperationIs ==
  ASSUME NEW o \in Ops
  PROVE  Operation(o) <=>
            \/ CallBeginOp(o) \/ BeginOp(o) \/ EndOp(o) \/ EndLastOp(o)
            \/ \E b \in Blocks, v \in Values : LogWritten(o, b, v)
            \/ \E b \in Blocks : LogWritePanics(o, b)
<1>1. ASSUME NEW b \in Blocks, NEW v \in Values
      PROVE  LogWrite(o, b, v) <=> LogWritten(o, b, v) \/ LogWritePanics(o, b)
  BY DEF LogWrite, LogWritten, LogWritePanics
<1>2. InitialValue \in Values
  BY LogAssumption DEF LogAssumption
<1> QED
  BY <1>1, <1>2, Zenon DEF Operation

(* LogInv is its parts.                                                    *)
LEMMA LogInvParts ==
  LogInv <=> TypeOK /\ RoomInv /\ SizeInv /\ CommitterInv /\ PhaseInv
  BY DEF LogInv, SizeInv, CommitterInv

(* The empty log.                                                          *)
LEMMA EmptySeq == <<>> \in Seq(Blocks) /\ Len(<<>>) = 0 /\ DOMAIN <<>> = {}
  OBVIOUS

(* A new file system, with nothing in memory.                              *)
LEMMA LogInvInit == Init => LogInv
<1> SUFFICES ASSUME Init
             PROVE  TypeOK /\ RoomInv /\ SizeInv /\ CommitterInv /\ PhaseInv
  BY LogInvParts
<1> USE DEF Init
<1>1. TypeOK
  <2>1. lh \in Seq(Blocks) /\ head \in Seq(Blocks)
    BY EmptySeq
  <2>2. home \in [Blocks -> Values] /\ cache \in [Blocks -> Values]
    BY LogAssumption DEF LogAssumption
  <2>3. logged \in [1..LogSize -> Values]
    BY LogAssumption DEF LogAssumption
  <2>4. op \in [Ops -> OpStates] /\ wrote \in [Ops -> SUBSET Blocks]
    BY DEF OpStates
  <2>5. /\ phase \in {"idle"} \cup CommitPhases \cup RecoveryPhases
        /\ tail \in Nat \ {0}
    BY DEF CommitPhases, RecoveryPhases
  <2>6. committing \in BOOLEAN /\ panicked \in BOOLEAN
    BY Zenon
  <2> HIDE DEF Init
  <2> QED
    BY <2>1, <2>2, <2>3, <2>4, <2>5, <2>6 DEF TypeOK
<1>2. SizeInv
  BY LogAssumption DEF LogAssumption, SizeInv, Injective
<1>3. CommitterInv
  BY DEF CommitterInv, CommitPhases, Outstanding
<1>4. PhaseInv
  BY DEF PhaseInv, OthersClean, Rng
<1>5. RoomInv
  <2>1. Promised = {} /\ Len(lh) = 0
    BY EmptySeq DEF Promised, Outstanding
  <2>2. Cardinality(Promised) = 0
    BY <2>1, FS_EmptySet
  <2> QED
    BY <2>1, <2>2, LogAssumption, FS_EmptySet DEF LogAssumption, RoomInv
<1> QED
  BY <1>1, <1>2, <1>3, <1>4, <1>5

(* Every step keeps the types; the loops index the log within its bounds.  *)
LEMMA TypeNext ==
  ASSUME TypeOK, SizeInv, PhaseInv, Next
  PROVE  TypeOK'
<1> USE LogAssumption DEF LogAssumption, TypeOK, OpStates, CommitPhases,
        RecoveryPhases, diskVars
<1>1. ASSUME NEW o \in Ops, Operation(o) PROVE TypeOK'
  <2>1. CASE CallBeginOp(o) \/ BeginOp(o)
    BY <2>1 DEF CallBeginOp, BeginOp
  <2>2. CASE EndOp(o)
    BY <2>2 DEF EndOp, Woken
  <2>3. CASE EndLastOp(o)
    BY <2>3 DEF EndLastOp
  <2>4. ASSUME NEW b \in Blocks, LogWritePanics(o, b) PROVE TypeOK'
    BY <2>4 DEF LogWritePanics
  <2>5. ASSUME NEW b \in Blocks, NEW v \in Values, LogWritten(o, b, v)
        PROVE  TypeOK'
    <3>1. lh' \in Seq(Blocks)
      BY <2>5 DEF LogWritten
    <3> QED
      BY <2>5, <3>1 DEF LogWritten
  <2> QED
    BY <1>1, <2>1, <2>2, <2>3, <2>4, <2>5, OperationIs
<1>2. CASE WriteLog
  BY <1>2 DEF WriteLog, SizeInv, PhaseInv
<1>3. CASE WriteHead
  BY <1>3 DEF WriteHead
<1>4. ASSUME NEW next \in {"clear", "r_clear"}, InstallTrans(next),
             phase \in {"install", "r_install"}
      PROVE  TypeOK'
  <2>1. tail \in 1..Len(lh) /\ Len(lh) <= LogSize
    BY <1>4 DEF PhaseInv, SizeInv
  <2>2. lh[tail] \in Blocks /\ logged[tail] \in Values
    BY <2>1
  <2> QED
    BY <1>4, <2>2 DEF InstallTrans
<1>5. CASE Clear \/ CommitDone
  BY <1>5, EmptySeq DEF Clear, CommitDone, Woken
<1>6. CASE ReadHead \/ RecoverClear
  BY <1>6, EmptySeq DEF ReadHead, RecoverClear
<1>7. CASE Crash
  <2>1. lh' \in Seq(Blocks)
    BY <1>7, EmptySeq DEF Crash
  <2>2. op' \in [Ops -> OpStates] /\ wrote' \in [Ops -> SUBSET Blocks]
    BY <1>7 DEF Crash
  <2>3. home' = home /\ logged' = logged /\ head' = head /\ cache' = home
    BY <1>7 DEF Crash
  <2>4. /\ committing' \in BOOLEAN /\ panicked' \in BOOLEAN
    BY <1>7, Zenon DEF Crash
  <2>5. tail' \in Nat \ {0} /\ phase' \in RecoveryPhases
    BY <1>7 DEF Crash
  <2> QED
    BY <2>1, <2>2, <2>3, <2>4, <2>5, Zenon
<1> QED
  BY <1>1, <1>2, <1>3, <1>4, <1>5, <1>6, <1>7
     DEF Next, Commit, Recover, Install, RecoverInstall

-----------------------------------------------------------------------------
(* What log_write()'s append does to log.lh.                               *)
LEMMA AppendFresh ==
  ASSUME NEW s \in Seq(Blocks), NEW b \in Blocks, Injective(s), b \notin Rng(s)
  PROVE  /\ Append(s, b) \in Seq(Blocks)
         /\ Injective(Append(s, b))
         /\ Len(Append(s, b)) = Len(s) + 1
         /\ Rng(Append(s, b)) = Rng(s) \cup {b}
<1> DEFINE t == Append(s, b)
<1>1. /\ t \in Seq(Blocks) /\ Len(t) = Len(s) + 1
      /\ DOMAIN t = 1..(Len(s) + 1) /\ DOMAIN s = 1..Len(s)
      /\ Len(s) \in Nat
  OBVIOUS
<1>2. \A i \in 1..Len(s) : t[i] = s[i]
  OBVIOUS
<1>3. t[Len(s) + 1] = b
  OBVIOUS
<1> HIDE DEF t
<1>4. Injective(t)
  BY <1>1, <1>2, <1>3 DEF Injective, Rng
<1>5. Rng(t) = Rng(s) \cup {b}
  BY <1>1, <1>2, <1>3 DEF Rng
<1> QED
  BY <1>1, <1>4, <1>5 DEF t

(* log.lh and the header hold every block once and never more than LogSize *)
(* blocks.                                                                 *)
LEMMA SizeNext ==
  ASSUME TypeOK, SizeInv, Next
  PROVE  SizeInv'
<1>1. ASSUME NEW o \in Ops, NEW b \in Blocks, NEW v \in Values,
             LogWritten(o, b, v)
      PROVE  SizeInv'
  <2>1. head' = head /\ Len(lh) < LogSize /\ lh \in Seq(Blocks)
    BY <1>1, LogAssumption DEF LogWritten, LogFull, diskVars, TypeOK, LogAssumption
  <2>2. CASE b \in Rng(lh)
    <3>1. lh' = lh
      BY <1>1, <2>2 DEF LogWritten
    <3> QED
      BY <2>1, <3>1 DEF SizeInv, Injective
  <2>3. CASE b \notin Rng(lh)
    <3>1. lh' = Append(lh, b)
      BY <1>1, <2>3 DEF LogWritten
    <3>2. Injective(lh') /\ Len(lh') = Len(lh) + 1
      BY <2>1, <2>3, <3>1, AppendFresh DEF SizeInv
    <3> QED
      BY <2>1, <3>2, LogAssumption DEF SizeInv, Injective, LogAssumption
  <2> QED
    BY <2>2, <2>3
<1>2. CASE UNCHANGED <<lh, head>>
  BY <1>2 DEF SizeInv, Injective
<1>3. CASE lh' \in {<<>>, lh, head} /\ head' \in {<<>>, lh, head}
  BY <1>3, LogAssumption, EmptySeq DEF SizeInv, Injective, LogAssumption
<1>4. ASSUME NEW o \in Ops, Operation(o) PROVE SizeInv'
  BY <1>1, <1>2, <1>4, OperationIs
     DEF CallBeginOp, BeginOp, EndOp, EndLastOp, LogWritePanics, diskVars
<1>5. CASE Commit \/ Recover \/ Crash
  BY <1>3, <1>5
     DEF Commit, Recover, Crash, WriteLog, WriteHead, Install, Clear,
         CommitDone, ReadHead, RecoverInstall, RecoverClear, InstallTrans, diskVars
<1> QED
  BY <1>4, <1>5 DEF Next

-----------------------------------------------------------------------------
(* committing says that commit() runs; no operation is in progress then,   *)
(* and the log is empty when nothing is in progress.                       *)
LEMMA CommitterNext ==
  ASSUME TypeOK, CommitterInv, PhaseInv, Next
  PROVE  CommitterInv'
<1> USE DEF CommitterInv, Outstanding, TypeOK
<1>1. ASSUME NEW o \in Ops, Operation(o) PROVE CommitterInv'
  <2>1. CASE CallBeginOp(o)
    BY <2>1 DEF CallBeginOp
  <2>2. CASE BeginOp(o)
    BY <2>2 DEF BeginOp, Up, CommitPhases
  <2>3. CASE EndOp(o)
    BY <2>3 DEF EndOp, Woken
  <2>4. CASE EndLastOp(o)
    BY <2>4 DEF EndLastOp, CommitPhases
  <2>5. ASSUME NEW b \in Blocks, NEW v \in Values,
               LogWritten(o, b, v)
        PROVE  CommitterInv'
    BY <2>5 DEF LogWritten
  <2>6. ASSUME NEW b \in Blocks, LogWritePanics(o, b)
        PROVE  CommitterInv'
    BY <2>6 DEF LogWritePanics
  <2> QED
    BY <1>1, <2>1, <2>2, <2>3, <2>4, <2>5, <2>6, OperationIs
<1>2. CASE WriteLog \/ WriteHead \/ Install
  BY <1>2 DEF WriteLog, WriteHead, Install, InstallTrans, CommitPhases
<1>3. CASE Clear
  BY <1>3 DEF Clear, CommitPhases
<1>4. CASE CommitDone
  BY <1>4 DEF CommitDone, CommitPhases, PhaseInv, Woken
<1>5. CASE Recover
  BY <1>5 DEF Recover, ReadHead, RecoverInstall, RecoverClear, InstallTrans,
              CommitPhases
<1>6. CASE Crash
  BY <1>6 DEF Crash, CommitPhases
<1> QED
  BY <1>1, <1>2, <1>3, <1>4, <1>5, <1>6 DEF Next, Commit

-----------------------------------------------------------------------------
(* Each phase of commit() and of recovery has done what the next relies    *)
(* on: blocks are in the log before the header names them, and at home     *)
(* before it is cleared.                                                   *)
LEMMA PhaseOperation ==
  ASSUME TypeOK, CommitterInv, PhaseInv, NEW o \in Ops, Operation(o)
  PROVE  PhaseInv'
<1> USE DEF PhaseInv, OthersClean, CopiedToLog, CopiedHome, Rng
<1>1. CASE CallBeginOp(o) \/ BeginOp(o) \/ EndOp(o)
  BY <1>1 DEF CallBeginOp, BeginOp, EndOp, diskVars
<1>2. CASE EndLastOp(o)
  <2>1. phase = "idle" /\ lh' = lh /\ lh \in Seq(Blocks)
    BY <1>2 DEF EndLastOp, CommitterInv, Outstanding, TypeOK
  <2>2. lh # <<>> => Len(lh) \in Nat /\ Len(lh) >= 1
    BY <2>1
  <2> QED
    BY <1>2, <2>1, <2>2 DEF EndLastOp, diskVars
<1>3. ASSUME NEW b \in Blocks, LogWritePanics(o, b) PROVE PhaseInv'
  BY <1>3 DEF LogWritePanics, diskVars
<1>4. ASSUME NEW b \in Blocks, NEW v \in Values, LogWritten(o, b, v)
      PROVE  PhaseInv'
  <2>1. phase = "idle" /\ phase' = "idle" /\ head' = <<>> /\ home' = home
    BY <1>4 DEF LogWritten, CommitterInv, Outstanding, diskVars
  <2>2. Rng(lh') = Rng(lh) \cup {b}
    <3>1. CASE b \in Rng(lh)
      BY <1>4, <3>1 DEF LogWritten
    <3>2. CASE b \notin Rng(lh)
      <4>1. lh' = Append(lh, b) /\ lh \in Seq(Blocks)
        BY <1>4, <3>2 DEF LogWritten, TypeOK
      <4> QED
        BY <4>1
    <3> QED
      BY <3>1, <3>2
  <2>3. OthersClean'
    <3> SUFFICES ASSUME NEW d \in Blocks, d \notin Rng(lh')
                 PROVE  cache'[d] = home'[d]
      OBVIOUS
    <3>1. d # b /\ d \notin Rng(lh)
      BY <2>2
    <3>2. cache[d] = home[d]
      BY <2>1, <3>1
    <3> QED
      BY <1>4, <2>1, <3>1, <3>2 DEF LogWritten, TypeOK
  <2> QED
    BY <2>1, <2>3
<1> QED
  BY <1>1, <1>2, <1>3, <1>4, OperationIs

(* One block copied by install_trans(), in the cache and at home.          *)
LEMMA InstallCopies ==
  ASSUME TypeOK, SizeInv, tail \in 1..Len(lh), CopiedHome(tail - 1),
         NEW next, InstallTrans(next)
  PROVE  /\ \A i \in 1..tail : home'[lh[i]] = logged[i]
         /\ \A b \in Blocks :
               \/ cache'[b] = home'[b]
               \/ b # lh[tail] /\ cache'[b] = cache[b] /\ home'[b] = home[b]
         /\ lh' = lh /\ head' = head /\ logged' = logged
<1>1. /\ lh[tail] \in Blocks /\ logged[tail] \in Values
      /\ \A i \in 1..Len(lh) : lh[i] \in Blocks
      /\ tail \in Nat /\ Len(lh) \in Nat
  BY LogAssumption DEF TypeOK, SizeInv, LogAssumption
<1>2. lh' = lh /\ head' = head /\ logged' = logged
  BY DEF InstallTrans
<1>3. \A b \in Blocks :
        /\ home'[b] = IF b = lh[tail] THEN logged[tail] ELSE home[b]
        /\ cache'[b] = IF b = lh[tail] THEN logged[tail] ELSE cache[b]
  BY <1>1 DEF InstallTrans, TypeOK
<1>4. ASSUME NEW i \in 1..tail PROVE home'[lh[i]] = logged[i]
  <2>1. CASE i = tail
    BY <1>1, <1>3, <2>1
  <2>2. CASE i # tail
    <3>1. i \in 1..(tail - 1) /\ i \in 1..Len(lh) /\ home[lh[i]] = logged[i]
      BY <1>1, <2>2 DEF CopiedHome
    <3>2. lh[i] # lh[tail] /\ lh[i] \in Blocks
      BY <1>1, <2>2, <3>1 DEF SizeInv, Injective, TypeOK
    <3> QED
      BY <1>3, <3>1, <3>2
  <2> QED
    BY <2>1, <2>2
<1> QED
  BY <1>2, <1>3, <1>4

(* A step of install_trans(), in commit() or in recovery.                  *)
LEMMA PhaseInstall ==
  ASSUME TypeOK, SizeInv, PhaseInv, Install \/ RecoverInstall
  PROVE  PhaseInv'
<1> DEFINE next == IF phase = "install" THEN "clear" ELSE "r_clear"
<1>1. InstallTrans(next) /\ phase \in {"install", "r_install"}
  BY DEF Install, RecoverInstall
<1>2. /\ tail \in 1..Len(lh) /\ CopiedHome(tail - 1) /\ head = lh
      /\ Len(lh) \in Nat
  BY <1>1 DEF PhaseInv, TypeOK
<1>3. /\ \A i \in 1..tail : home'[lh[i]] = logged[i]
      /\ \A b \in Blocks :
            \/ cache'[b] = home'[b]
            \/ b # lh[tail] /\ cache'[b] = cache[b] /\ home'[b] = home[b]
      /\ lh' = lh /\ head' = head /\ logged' = logged
  BY <1>1, <1>2, InstallCopies
<1>4. /\ cache' \in [Blocks -> Values] /\ home' \in [Blocks -> Values]
      /\ \A i \in 1..Len(lh) : lh[i] \in Blocks
  <2>1. lh[tail] \in Blocks /\ logged[tail] \in Values
    BY <1>2, LogAssumption DEF TypeOK, SizeInv, LogAssumption
  <2> QED
    BY <1>1, <2>1 DEF InstallTrans, TypeOK
<1>5. \/ tail < Len(lh) /\ tail' = tail + 1 /\ phase' = phase
      \/ tail = Len(lh) /\ tail' = 1 /\ phase' = next
  BY <1>1, <1>2 DEF InstallTrans
<1> HIDE DEF next
<1>6. CASE phase = "install"
  <2>1. OthersClean /\ \A i \in 1..Len(lh) : logged[i] = cache[lh[i]]
    BY <1>6 DEF PhaseInv, CopiedToLog
  <2>2. OthersClean'
    BY <1>3, <2>1 DEF OthersClean
  <2>3. \A i \in 1..Len(lh) : logged[i] = cache'[lh[i]]
    <3> SUFFICES ASSUME NEW i \in 1..Len(lh)
                 PROVE  logged[i] = cache'[lh[i]]
      OBVIOUS
    <3>1. lh[i] = lh[tail] => i = tail
      BY <1>2 DEF SizeInv, Injective, TypeOK
    <3>2. logged[tail] = cache'[lh[tail]]
      BY <1>1, <1>2, <1>4 DEF InstallTrans, TypeOK
    <3> QED
      BY <1>1, <1>4, <2>1, <3>1, <3>2 DEF InstallTrans, TypeOK
  <2>4. CASE phase' = "install" /\ tail < Len(lh) /\ tail' = tail + 1
    BY <1>2, <1>3, <2>2, <2>3, <2>4 DEF PhaseInv, CopiedToLog, CopiedHome
  <2>5. CASE phase' = "clear" /\ tail = Len(lh)
    <3>1. \A b \in Blocks : cache'[b] = home'[b]
      <4> SUFFICES ASSUME NEW b \in Blocks PROVE cache'[b] = home'[b]
        OBVIOUS
      <4>1. CASE b \in Rng(lh)
        <5>1. PICK i \in 1..Len(lh) : lh[i] = b
          BY <4>1 DEF Rng, TypeOK
        <5> QED
          BY <1>3, <2>3, <2>5, <5>1
      <4>2. CASE b \notin Rng(lh)
        BY <1>3, <2>2, <4>2 DEF OthersClean
      <4> QED
        BY <4>1, <4>2
    <3>2. cache' = home'
      BY <1>4, <3>1
    <3> QED
      BY <1>2, <1>3, <2>5, <3>2 DEF PhaseInv, CopiedHome
  <2> QED
    BY <1>5, <1>6, <2>4, <2>5 DEF next
<1>7. CASE phase = "r_install"
  <2>1. cache' = home'
    <3>1. cache = home
      BY <1>7 DEF PhaseInv
    <3>2. \A b \in Blocks : cache'[b] = home'[b]
      BY <1>3, <3>1
    <3> QED
      BY <1>4, <3>2
  <2>2. CASE phase' = "r_install" /\ tail < Len(lh) /\ tail' = tail + 1
    BY <1>2, <1>3, <2>1, <2>2 DEF PhaseInv, CopiedHome
  <2>3. CASE phase' = "r_clear" /\ tail = Len(lh)
    BY <1>2, <1>3, <2>1, <2>3 DEF PhaseInv, CopiedHome
  <2> QED
    BY <1>5, <1>7, <2>2, <2>3 DEF next
<1> QED
  BY <1>1, <1>6, <1>7

(* The other steps of commit() and of recovery.                            *)
LEMMA PhaseCommit ==
  ASSUME TypeOK, SizeInv, PhaseInv,
         WriteLog \/ WriteHead \/ Clear \/ CommitDone \/ Recover \/ Crash,
         ~RecoverInstall
  PROVE  PhaseInv'
<1> USE DEF PhaseInv, diskVars
<1>1. CASE WriteLog
  <2>1. /\ tail \in 1..Len(lh) /\ Len(lh) \in Nat /\ tail \in 1..LogSize
        /\ Len(lh) <= LogSize /\ lh # <<>>
    BY <1>1, LogAssumption DEF WriteLog, SizeInv, TypeOK, LogAssumption
  <2>2. \A i \in 1..tail : logged'[i] = cache[lh[i]]
    <3> SUFFICES ASSUME NEW i \in 1..tail PROVE logged'[i] = cache[lh[i]]
      OBVIOUS
    <3>1. \/ i = tail
          \/ i \in 1..(tail - 1) /\ logged[i] = cache[lh[i]]
      BY <1>1, <2>1 DEF WriteLog, CopiedToLog
    <3>2. i \in 1..LogSize
      BY <2>1, LogAssumption DEF LogAssumption
    <3> QED
      BY <1>1, <2>1, <3>1, <3>2 DEF WriteLog, TypeOK
  <2>3. OthersClean'
    BY <1>1 DEF WriteLog, OthersClean
  <2>4. CASE tail < Len(lh)
    BY <1>1, <2>1, <2>2, <2>3, <2>4 DEF WriteLog, CopiedToLog
  <2>5. CASE ~(tail < Len(lh))
    <3>1. tail = Len(lh) /\ tail' = 1 /\ phase' = "write_head" /\ lh' = lh
          /\ head' = head /\ cache' = cache
      BY <1>1, <2>1, <2>5 DEF WriteLog
    <3>2. CopiedToLog(Len(lh))'
      BY <2>2, <3>1 DEF CopiedToLog
    <3>3. tail' \in 1..Len(lh')
      BY <2>1, <3>1
    <3> QED
      BY <1>1, <2>3, <3>1, <3>2, <3>3 DEF WriteLog
  <2> QED
    BY <2>4, <2>5
<1>2. CASE WriteHead
  BY <1>2 DEF WriteHead, OthersClean, CopiedToLog, CopiedHome
<1>3. CASE Clear
  BY <1>3 DEF Clear, OthersClean
<1>4. CASE CommitDone
  BY <1>4 DEF CommitDone, OthersClean
<1>5. CASE ReadHead
  <2>1. /\ phase = "r_head" /\ lh = <<>> /\ tail = 1 /\ OthersClean
        /\ lh' = head /\ head' = head /\ tail' = 1
        /\ cache' = cache /\ home' = home /\ logged' = logged
    BY <1>5 DEF ReadHead
  <2>2. cache' = home'
    <3>1. \A b \in Blocks : cache[b] = home[b]
      BY <2>1 DEF OthersClean, Rng
    <3>2. cache \in [Blocks -> Values] /\ home \in [Blocks -> Values]
      BY DEF TypeOK
    <3>3. cache = home
      BY <3>1, <3>2
    <3> QED
      BY <2>1, <3>3
  <2>3. CASE head = <<>>
    BY <1>5, <2>1, <2>2, <2>3 DEF ReadHead, CopiedHome
  <2>4. CASE head # <<>>
    <3>1. Len(head) \in Nat /\ Len(head) >= 1
      BY <2>4 DEF TypeOK
    <3> QED
      BY <1>5, <2>1, <2>2, <2>4, <3>1 DEF ReadHead, CopiedHome
  <2> QED
    BY <2>3, <2>4
<1>6. CASE RecoverClear
  BY <1>6 DEF RecoverClear, OthersClean
<1>7. CASE Crash
  BY <1>7 DEF Crash, OthersClean
<1> QED
  BY <1>1, <1>2, <1>3, <1>4, <1>5, <1>6, <1>7 DEF Recover

-----------------------------------------------------------------------------
(* The promises of begin_op() to the operations it lets in.                *)

(* An operation is promised at most MaxOpBlocks entries.                   *)
LEMMA PromisesTo ==
  ASSUME NEW S \in SUBSET Ops, NEW P \in SUBSET (S \X (1..MaxOpBlocks))
  PROVE  /\ IsFiniteSet(P)
         /\ Cardinality(P) \in Nat
         /\ Cardinality(P) <= Cardinality(S) * MaxOpBlocks
         /\ IsFiniteSet(S) /\ Cardinality(S) \in Nat
<1>1. IsFiniteSet(S) /\ Cardinality(S) \in Nat
  BY FS_Subset, FS_CardinalityType, LogAssumption DEF LogAssumption
<1>2. MaxOpBlocks \in Nat
  BY LogAssumption DEF LogAssumption
<1>3. IsFiniteSet(1..MaxOpBlocks) /\ Cardinality(1..MaxOpBlocks) = MaxOpBlocks
  BY <1>2, FS_Interval
<1> DEFINE All == S \X (1..MaxOpBlocks)
<1>4. /\ IsFiniteSet(All)
      /\ Cardinality(All) = Cardinality(S) * MaxOpBlocks
  BY <1>1, <1>3, FS_Product
<1> QED
  BY <1>1, <1>4, FS_Subset, FS_CardinalityType

(* So for what is promised to the operations in progress.                  *)
LEMMA PromisesFinite ==
  /\ IsFiniteSet(Promised)
  /\ Cardinality(Promised) \in Nat
  /\ Cardinality(Promised) <= Cardinality(Outstanding) * MaxOpBlocks
  /\ IsFiniteSet(Outstanding) /\ Cardinality(Outstanding) \in Nat
BY PromisesTo DEF Promised, Outstanding

(* Writing one more block, or the same again.                              *)
LEMMA OneMore ==
  ASSUME NEW S, IsFiniteSet(S), NEW x
  PROVE  /\ IsFiniteSet(S \cup {x})
         /\ Cardinality(S) \in Nat /\ Cardinality(S \cup {x}) \in Nat
         /\ Cardinality(S) <= Cardinality(S \cup {x})
         /\ x \notin S => Cardinality(S \cup {x}) = Cardinality(S) + 1
<1>1. IsFiniteSet(S \cup {x})
  BY FS_AddElement
<1>2. Cardinality(S) \in Nat /\ Cardinality(S \cup {x}) \in Nat
  BY <1>1, FS_CardinalityType
<1>3. x \notin S => Cardinality(S \cup {x}) = Cardinality(S) + 1
  BY FS_AddElement
<1>4. Cardinality(S) <= Cardinality(S \cup {x})
  BY <1>1, FS_Subset
<1> QED
  BY <1>1, <1>2, <1>3, <1>4

(* A promise kept or given up leaves fewer.                                *)
LEMMA FewerPromises ==
  ASSUME NEW S \in SUBSET Promised
  PROVE  Cardinality(S) \in Nat /\ Cardinality(S) <= Cardinality(Promised)
BY PromisesFinite, FS_Subset, FS_CardinalityType

(* A block that is logged was promised: what is in use and what is promised*)
(* do not grow together.                                                   *)
LEMMA WriteSpends ==
  ASSUME TypeOK, RoomInv, SizeInv,
         NEW o \in Ops, NEW b \in Blocks, NEW v \in Values, LogWritten(o, b, v)
  PROVE  /\ Len(lh') + Cardinality(Promised') <= Len(lh) + Cardinality(Promised)
         /\ Len(lh') \in Nat /\ Cardinality(Promised') \in Nat
         /\ \A p \in Ops : /\ op'[p] # "in" => wrote'[p] = {}
                           /\ IsFiniteSet(wrote'[p]) /\ wrote'[p] \subseteq Rng(lh')
                           /\ Cardinality(wrote'[p]) <= OpWrites
<1>0. /\ Len(lh) \in Nat /\ MaxOpBlocks \in Nat /\ OpWrites \in 0..MaxOpBlocks
      /\ op \in [Ops -> OpStates] /\ wrote \in [Ops -> SUBSET Blocks]
  BY LogAssumption DEF TypeOK, LogAssumption
<1>1. /\ op' = op /\ op[o] = "in" /\ MayWrite(o, b)
      /\ wrote' = [wrote EXCEPT ![o] = @ \cup {b}]
  BY DEF LogWritten
<1>2. /\ IsFiniteSet(wrote[o]) /\ Cardinality(wrote[o]) \in Nat
      /\ IsFiniteSet(wrote'[o]) /\ Cardinality(wrote'[o]) \in Nat
      /\ Cardinality(wrote[o]) <= Cardinality(wrote'[o])
      /\ b \notin wrote[o] => Cardinality(wrote'[o]) = Cardinality(wrote[o]) + 1
      /\ Cardinality(wrote'[o]) <= OpWrites
  <2>1. IsFiniteSet(wrote[o]) /\ wrote'[o] = wrote[o] \cup {b}
    BY <1>0, <1>1 DEF RoomInv
  <2> QED
    BY <1>1, <2>1, OneMore DEF MayWrite
<1>3. Outstanding' = Outstanding /\ \A p \in Ops \ {o} : wrote'[p] = wrote[p]
  BY <1>0, <1>1 DEF Outstanding
<1>4. Promised' \subseteq Promised
  BY <1>0, <1>2, <1>3, Z3 DEF Promised, Outstanding
<1>5. Rng(lh) \subseteq Rng(lh') /\ b \in Rng(lh')
  <2>1. CASE b \in Rng(lh)
    BY <2>1 DEF LogWritten
  <2>2. CASE b \notin Rng(lh)
    <3>1. lh' = Append(lh, b) /\ lh \in Seq(Blocks)
      BY <2>2 DEF LogWritten, TypeOK
    <3> QED
      BY <2>2, <3>1, AppendFresh DEF SizeInv
  <2> QED
    BY <2>1, <2>2
<1>6. \A p \in Ops : /\ op'[p] # "in" => wrote'[p] = {}
                     /\ IsFiniteSet(wrote'[p]) /\ wrote'[p] \subseteq Rng(lh')
                     /\ Cardinality(wrote'[p]) <= OpWrites
  BY <1>0, <1>1, <1>2, <1>3, <1>5 DEF RoomInv
<1>7. /\ Len(lh') + Cardinality(Promised') <= Len(lh) + Cardinality(Promised)
      /\ Len(lh') \in Nat /\ Cardinality(Promised') \in Nat
  <2>1. Cardinality(Promised') \in Nat /\ Cardinality(Promised') <= Cardinality(Promised)
    BY <1>4, FewerPromises
  <2>2. CASE b \in Rng(lh)
    BY <1>0, <2>1, <2>2, PromisesFinite DEF LogWritten, RoomInv
  <2>3. CASE b \notin Rng(lh)
    <3>1. lh' = Append(lh, b) /\ Len(lh') = Len(lh) + 1
      BY <2>3 DEF LogWritten, TypeOK
    <3> DEFINE e == <<o, Cardinality(wrote'[o])>>
    <3>2. Cardinality(wrote'[o]) = Cardinality(wrote[o]) + 1
      BY <1>2, <2>3 DEF RoomInv
    <3>3. e \in Promised
      BY <1>0, <1>1, <1>2, <3>2 DEF Promised, Outstanding
    <3>4. e \notin Promised'
      BY <1>2 DEF Promised
    <3>5. Promised' \subseteq Promised \ {e}
      BY <1>4, <3>4
    <3> HIDE DEF e
    <3>6. /\ IsFiniteSet(Promised \ {e})
          /\ Cardinality(Promised \ {e}) = Cardinality(Promised) - 1
      BY <3>3, PromisesFinite, FS_RemoveElement
    <3>7. Cardinality(Promised') <= Cardinality(Promised) - 1
      BY <3>5, <3>6, FS_Subset
    <3> QED
      BY <1>0, <2>1, <3>1, <3>7, PromisesFinite DEF RoomInv
  <2> QED
    BY <2>2, <2>3
<1> QED
  BY <1>6, <1>7

(* No step promises or uses more than the log can hold.                    *)
LEMMA RoomNext ==
  ASSUME TypeOK, RoomInv, SizeInv, CommitterInv, PhaseInv, Next
  PROVE  RoomInv'
<1>1. /\ LogSize \in Nat /\ Len(lh) \in Nat /\ Len(head) \in Nat
      /\ MaxOpBlocks \in Nat /\ OpWrites \in 0..MaxOpBlocks
  BY LogAssumption DEF TypeOK, LogAssumption
<1>2. op \in [Ops -> OpStates] /\ wrote \in [Ops -> SUBSET Blocks]
  BY DEF TypeOK
(* Steps that make no promise and write nothing.                           *)
<1> DEFINE Stays(o) == wrote'[o] = wrote[o] /\ (op[o] = "in" => op'[o] = "in")
           Leaves(o) == wrote'[o] = {} /\ op'[o] # "in"
           Harmless == /\ lh' = lh /\ Outstanding' \subseteq Outstanding
                       /\ \A o \in Ops : Stays(o) \/ Leaves(o)
<1>3. ASSUME Harmless PROVE RoomInv'
  <2>1. Promised' \subseteq Promised
    BY <1>3 DEF Promised, Outstanding
  <2>2. Cardinality(Promised') \in Nat /\ Cardinality(Promised') <= Cardinality(Promised)
    BY <2>1, FewerPromises
  <2>3. Len(lh') + Cardinality(Promised') <= LogSize
    BY <1>1, <1>3, <2>2, PromisesFinite DEF RoomInv
  <2>4. \A o \in Ops : /\ op'[o] # "in" => wrote'[o] = {}
                       /\ IsFiniteSet(wrote'[o]) /\ wrote'[o] \subseteq Rng(lh')
                       /\ Cardinality(wrote'[o]) <= OpWrites
    <3> SUFFICES ASSUME NEW o \in Ops
                 PROVE  /\ op'[o] # "in" => wrote'[o] = {}
                        /\ IsFiniteSet(wrote'[o]) /\ wrote'[o] \subseteq Rng(lh')
                        /\ Cardinality(wrote'[o]) <= OpWrites
      OBVIOUS
    <3>1. CASE wrote'[o] = {}
      <4>1. IsFiniteSet(wrote'[o]) /\ Cardinality(wrote'[o]) = 0
        BY <3>1, FS_EmptySet
      <4> QED
        BY <1>1, <3>1, <4>1
    <3>2. CASE wrote'[o] = wrote[o] /\ (op[o] = "in" => op'[o] = "in")
      <4>1. wrote'[o] = wrote[o] /\ lh' = lh
        BY <1>3, <3>2
      <4>2. /\ IsFiniteSet(wrote[o]) /\ wrote[o] \subseteq Rng(lh)
            /\ Cardinality(wrote[o]) <= OpWrites
        BY DEF RoomInv
      <4>3. IsFiniteSet(wrote'[o]) /\ Cardinality(wrote'[o]) <= OpWrites
        BY <4>1, <4>2
      <4> QED
        BY <3>2, <4>1, <4>2, <4>3 DEF RoomInv
    <3> QED
      BY <1>3, <3>1, <3>2
  <2> QED
    BY <2>3, <2>4 DEF RoomInv
(* Steps after which no operation is in progress.                          *)
<1>4. ASSUME Outstanding' = {}, Len(lh') <= LogSize, Len(lh') \in Nat,
             \A o \in Ops : wrote'[o] = {}
      PROVE  RoomInv'
  <2>1. Promised' = {}
    BY <1>4 DEF Promised
  <2>2. Cardinality(Promised') = 0
    BY <2>1, FS_EmptySet
  <2>3. \A o \in Ops : /\ op'[o] # "in" => wrote'[o] = {}
                       /\ IsFiniteSet(wrote'[o]) /\ wrote'[o] \subseteq Rng(lh')
                       /\ Cardinality(wrote'[o]) <= OpWrites
    <3>1. IsFiniteSet({}) /\ Cardinality({}) = 0
      BY FS_EmptySet
    <3>2. \A o \in Ops : IsFiniteSet(wrote'[o]) /\ Cardinality(wrote'[o]) = 0
      BY <1>4, <3>1, Zenon
    <3> QED
      BY <1>1, <1>4, <3>2
  <2>4. Len(lh') + Cardinality(Promised') <= LogSize
    BY <1>1, <1>4, <2>2
  <2> QED
    BY <2>3, <2>4 DEF RoomInv
<1>5. ASSUME NEW o \in Ops, BeginOp(o) PROVE RoomInv'
  <2>1. CASE ~committing /\ Room
    <3>1. /\ op' = [op EXCEPT ![o] = "in"] /\ wrote' = wrote /\ lh' = lh
          /\ op[o] = "begin"
      BY <1>5, <2>1 DEF BeginOp
    <3>2. Outstanding' = Outstanding \cup {o} /\ o \notin Outstanding
      BY <1>2, <3>1 DEF Outstanding
    <3>3. Cardinality(Outstanding') = Cardinality(Outstanding) + 1
      BY <3>2, PromisesFinite, FS_AddElement
    <3>4. /\ Cardinality(Promised') \in Nat
          /\ Cardinality(Promised') <= Cardinality(Outstanding') * MaxOpBlocks
      <4>1. Outstanding' \in SUBSET Ops
        BY DEF Outstanding
      <4>2. Promised' \in SUBSET (Outstanding' \X (1..MaxOpBlocks))
        BY DEF Promised
      <4> QED
        BY <4>1, <4>2, PromisesTo
    <3>5. Len(lh) + (Cardinality(Outstanding) + 1) * MaxOpBlocks <= LogSize
      BY <2>1 DEF Room
    <3>6. Len(lh') + Cardinality(Promised') <= LogSize
      <4>1. Cardinality(Promised') <= (Cardinality(Outstanding) + 1) * MaxOpBlocks
        BY <3>3, <3>4
      <4>2. (Cardinality(Outstanding) + 1) * MaxOpBlocks \in Nat
        BY <1>1, PromisesFinite
      <4> QED
        BY <1>1, <3>1, <3>4, <3>5, <4>1, <4>2
    <3>7. \A p \in Ops : op'[p] # "in" => op[p] # "in"
      BY <1>2, <3>1
    <3> QED
      BY <3>1, <3>6, <3>7 DEF RoomInv
  <2>2. CASE ~(~committing /\ Room)
    <3>1. op' = [op EXCEPT ![o] = "asleep"] /\ wrote' = wrote /\ lh' = lh /\ op[o] = "begin"
      BY <1>5, <2>2 DEF BeginOp
    <3>2. Harmless
      BY <1>2, <3>1 DEF Outstanding
    <3> QED
      BY <1>3, <3>2
  <2> QED
    BY <2>1, <2>2
<1>6. ASSUME NEW o \in Ops, NEW b \in Blocks, NEW v \in Values, LogWritten(o, b, v)
      PROVE  RoomInv'
  <2>1. Len(lh') + Cardinality(Promised') <= LogSize
    BY <1>1, <1>6, WriteSpends, PromisesFinite DEF RoomInv
  <2>2. \A p \in Ops : /\ op'[p] # "in" => wrote'[p] = {}
                       /\ IsFiniteSet(wrote'[p]) /\ wrote'[p] \subseteq Rng(lh')
                       /\ Cardinality(wrote'[p]) <= OpWrites
    BY <1>6, WriteSpends
  <2> QED
    BY <2>1, <2>2 DEF RoomInv
<1>7. ASSUME NEW o \in Ops, Operation(o) PROVE RoomInv'
  <2>1. CallBeginOp(o) => Harmless
    BY <1>2 DEF CallBeginOp, Outstanding
  <2>2. EndOp(o) => Harmless
    BY <1>2 DEF EndOp, Woken, Outstanding
  <2>3. EndLastOp(o) => Harmless
    BY <1>2 DEF EndLastOp, Outstanding
  <2>4. ASSUME NEW b \in Blocks, LogWritePanics(o, b) PROVE Harmless
    BY <1>2, <2>4 DEF LogWritePanics, Outstanding
  <2> HIDE DEF Harmless
  <2> QED
    BY <1>3, <1>5, <1>6, <1>7, <2>1, <2>2, <2>3, <2>4, OperationIs
<1>8. CASE WriteLog \/ WriteHead \/ Install \/ CommitDone \/ RecoverInstall
  <2>1. Harmless
    BY <1>2, <1>8 DEF WriteLog, WriteHead, Install, CommitDone, RecoverInstall,
       InstallTrans, Woken, Outstanding
  <2> QED
    BY <1>3, <2>1
<1>9. CASE Clear \/ ReadHead \/ RecoverClear
  <2>1. phase # "idle" /\ op' = op /\ wrote' = wrote /\ lh' \in {<<>>, head}
    BY <1>9 DEF Clear, ReadHead, RecoverClear
  <2>2. Outstanding' = {} /\ \A o \in Ops : wrote'[o] = {}
    BY <2>1 DEF CommitterInv, RoomInv, Outstanding
  <2> QED
    BY <1>1, <1>4, <2>1, <2>2, EmptySeq DEF SizeInv
<1>10. CASE Crash
  BY <1>1, <1>4, <1>10, EmptySeq DEF Crash, Outstanding
<1> QED
  BY <1>7, <1>8, <1>9, <1>10 DEF Next, Commit, Recover

-----------------------------------------------------------------------------
(* LogInv is an invariant.                                                 *)
LEMMA LogInvNext == LogInv /\ [Next]_vars => LogInv'
<1> SUFFICES ASSUME TypeOK, RoomInv, SizeInv, CommitterInv, PhaseInv, [Next]_vars
             PROVE  /\ TypeOK' /\ RoomInv'
                    /\ SizeInv' /\ CommitterInv' /\ PhaseInv'
  BY LogInvParts DEF LogInv, SizeInv, CommitterInv
<1>1. CASE Next
  <2>1. PhaseInv'
    BY <1>1, PhaseOperation, PhaseInstall, PhaseCommit DEF Next, Commit, Recover
  <2> QED
    BY <1>1, <2>1, TypeNext, RoomNext, SizeNext, CommitterNext
<1>2. CASE UNCHANGED vars
  BY <1>2 DEF vars, TypeOK, RoomInv, Promised, Rng, SizeInv, CommitterInv,
              PhaseInv, Outstanding,
              Injective, OthersClean, CopiedToLog, CopiedHome
<1> QED
  BY <1>1, <1>2

(* Every reachable state satisfies the invariant of log.c: the commit and  *)
(* recovery phases find on disk what the earlier ones left.                *)
THEOREM Invariance == Spec => []LogInv
<1>1. Init => LogInv
  BY LogInvInit
<1>2. LogInv /\ [Next]_vars => LogInv'
  BY LogInvNext
<1> QED
  BY <1>1, <1>2, PTL DEF Spec

(* While only one operation is in progress the log has an entry to spare:  *)
(* one that has ended did not use all that was reserved for it.            *)
SoloInv == \A o \in Ops : Outstanding = {o} => Len(lh) + Cardinality(Promised) < LogSize

(* What is promised to an operation last, which none can use.              *)
LEMMA LastPromise ==
  ASSUME OpWrites < MaxOpBlocks, TypeOK, RoomInv, NEW o \in Outstanding
  PROVE  <<o, MaxOpBlocks>> \in Promised
<1>1. /\ MaxOpBlocks \in Nat \ {0} /\ OpWrites \in Nat
      /\ o \in Ops /\ IsFiniteSet(wrote[o]) /\ Cardinality(wrote[o]) <= OpWrites
  BY LogAssumption DEF LogAssumption, Outstanding, RoomInv
<1>2. Cardinality(wrote[o]) \in Nat
  BY <1>1, FS_CardinalityType
<1> QED
  BY <1>1, <1>2 DEF Promised

(* The step of each action.                                                *)
LEMMA SoloNext ==
  ASSUME OpWrites < MaxOpBlocks, MaxOpBlocks < LogSize,
         TypeOK, RoomInv, SizeInv, CommitterInv, SoloInv, [Next]_vars
  PROVE  SoloInv'
<1>1. /\ LogSize \in Nat /\ Len(lh) \in Nat /\ MaxOpBlocks \in Nat
      /\ op \in [Ops -> OpStates] /\ wrote \in [Ops -> SUBSET Blocks]
  BY LogAssumption DEF TypeOK, LogAssumption
(* Steps that change neither.                                              *)
<1> DEFINE Still == lh' = lh /\ wrote' = wrote /\ Outstanding' = Outstanding
<1>2. ASSUME Still PROVE SoloInv'
  <2>1. Promised' = Promised
    BY <1>2 DEF Promised
  <2> QED
    BY <1>2, <2>1 DEF SoloInv
<1>3. ASSUME Outstanding' = {} PROVE SoloInv'
  BY <1>3 DEF SoloInv
<1>4. ASSUME NEW o \in Ops, BeginOp(o) PROVE SoloInv'
  <2>1. CASE ~committing /\ Room
    <3>1. /\ Outstanding' = Outstanding \cup {o} /\ o \notin Outstanding
          /\ lh' = lh /\ Up
      BY <1>1, <1>4, <2>1 DEF BeginOp, Outstanding
    <3>2. CASE Outstanding = {}
      <4>1. lh' = <<>> /\ Len(lh') = 0
        BY <2>1, <3>1, <3>2, EmptySeq DEF CommitterInv, Up, TypeOK
      <4>2. Promised' \in SUBSET ({o} \X (1..MaxOpBlocks))
        BY <3>1, <3>2 DEF Promised
      <4>3. Cardinality({o}) = 1
        BY FS_Singleton
      <4>4. Cardinality(Promised') \in Nat /\ Cardinality(Promised') <= MaxOpBlocks
        BY <1>1, <4>2, <4>3, PromisesTo
      <4> QED
        BY <1>1, <4>1, <4>4 DEF SoloInv
    <3>3. CASE Outstanding # {}
      BY <3>1, <3>3 DEF SoloInv
    <3> QED
      BY <3>2, <3>3
  <2>2. CASE ~(~committing /\ Room)
    BY <1>1, <1>2, <1>4, <2>2 DEF BeginOp, Outstanding
  <2> QED
    BY <2>1, <2>2
<1>5. ASSUME NEW o \in Ops, NEW b \in Blocks, NEW v \in Values, LogWritten(o, b, v)
      PROVE  SoloInv'
  <2>1. Outstanding' = Outstanding
    BY <1>1, <1>5 DEF LogWritten, Outstanding
  <2>2. /\ Len(lh') + Cardinality(Promised') <= Len(lh) + Cardinality(Promised)
        /\ Len(lh') \in Nat /\ Cardinality(Promised') \in Nat
    BY <1>5, WriteSpends
  <2> QED
    BY <1>1, <2>1, <2>2, PromisesFinite DEF SoloInv
<1>6. ASSUME NEW o \in Ops, EndOp(o) PROVE SoloInv'
  <2>1. /\ o \in Outstanding /\ Outstanding' = Outstanding \ {o}
        /\ lh' = lh /\ \A p \in Outstanding' : wrote'[p] = wrote[p]
    BY <1>1, <1>6 DEF EndOp, Woken, Outstanding
  <2> DEFINE e == <<o, MaxOpBlocks>>
  <2>2. e \in Promised
    BY <2>1, LastPromise
  <2>3. Promised' \subseteq Promised \ {e}
    BY <2>1 DEF Promised
  <2> HIDE DEF e
  <2>4. /\ IsFiniteSet(Promised \ {e})
        /\ Cardinality(Promised \ {e}) = Cardinality(Promised) - 1
    BY <2>2, PromisesFinite, FS_RemoveElement
  <2>5. Cardinality(Promised') \in Nat /\ Cardinality(Promised') <= Cardinality(Promised) - 1
    BY <2>3, <2>4, FS_Subset, FS_CardinalityType
  <2>6. Len(lh') + Cardinality(Promised') < LogSize
    BY <1>1, <2>1, <2>5, PromisesFinite DEF RoomInv
  <2> QED
    BY <2>6 DEF SoloInv
<1>7. ASSUME NEW o \in Ops, Operation(o) PROVE SoloInv'
  <2>1. CallBeginOp(o) => Still
    BY <1>1 DEF CallBeginOp, Outstanding
  <2>2. EndLastOp(o) => Outstanding' = {}
    BY <1>1 DEF EndLastOp, Outstanding
  <2>3. ASSUME NEW b \in Blocks, LogWritePanics(o, b) PROVE Still
    BY <2>3 DEF LogWritePanics, Outstanding
  <2> HIDE DEF Still
  <2> QED
    BY <1>2, <1>3, <1>4, <1>5, <1>6, <1>7, <2>1, <2>2, <2>3, OperationIs
<1>8. CASE Commit \/ Recover
  <2>1. phase # "idle" /\ (op' = op \/ op' = Woken)
    BY <1>8 DEF Commit, Recover, WriteLog, WriteHead, Install, InstallTrans, Clear,
       CommitDone, ReadHead, RecoverInstall, RecoverClear
  <2>2. Outstanding' = {}
    BY <1>1, <2>1 DEF CommitterInv, Outstanding, Woken
  <2> QED
    BY <1>3, <2>2
<1>9. CASE Crash
  BY <1>3, <1>9 DEF Crash, Outstanding
<1>10. CASE UNCHANGED vars
  BY <1>2, <1>10 DEF vars, Outstanding
<1> QED
  BY <1>7, <1>8, <1>9, <1>10 DEF Next

(* With a log that is as long as mkfs makes it, header included, and       *)
(* operations that write less than begin_op() reserves for them, none ever *)
(* meets a full log: log_write() does not panic.                           *)
THEOREM ReservationsSuffice ==
  ASSUME OpWrites < MaxOpBlocks, MaxOpBlocks < LogSize, LogSize <= LogBlocks
  PROVE  Spec => []LogHasRoom
<1>1. Init => SoloInv
  BY DEF Init, SoloInv, Outstanding
<1>2. LogInv /\ SoloInv /\ [Next]_vars => SoloInv'
  BY SoloNext, LogInvParts
<1>3. LogInv /\ SoloInv => LogHasRoom
  <2> SUFFICES ASSUME LogInv, SoloInv, NEW o \in Outstanding PROVE ~LogFull
    BY DEF LogHasRoom
  <2>1. TypeOK /\ RoomInv /\ Len(lh) + Cardinality(Promised) <= LogSize /\ o \in Ops
    BY DEF LogInv, RoomInv, Outstanding
  <2>2. Len(lh) \in Nat /\ LogSize \in Nat /\ LogBlocks \in Nat
    BY <2>1, LogAssumption DEF TypeOK, LogAssumption
  <2>3. <<o, MaxOpBlocks>> \in Promised
    BY <2>1, LastPromise
  <2>4. Len(lh) + 1 < LogSize
    <3>1. CASE Outstanding = {o}
      <4>1. Cardinality(Promised) # 0
        BY <2>3, PromisesFinite, FS_EmptySet
      <4> QED
        BY <2>1, <2>2, <3>1, <4>1, PromisesFinite DEF SoloInv
    <3>2. ASSUME NEW q \in Outstanding \ {o} PROVE Len(lh) + 1 < LogSize
      <4> DEFINE Two == {<<o, MaxOpBlocks>>, <<q, MaxOpBlocks>>}
      <4>1. Two \subseteq Promised
        BY <2>1, <2>3, <3>2, LastPromise
      <4> DEFINE One == {<<o, MaxOpBlocks>>}
      <4>2. Cardinality(One) = 1 /\ IsFiniteSet(One)
        BY FS_Singleton
      <4>3. <<q, MaxOpBlocks>> \notin One
        BY <3>2
      <4>4. Two = One \cup {<<q, MaxOpBlocks>>}
        OBVIOUS
      <4> HIDE DEF One, Two
      <4>6. Cardinality(Two) = 2
        BY <4>2, <4>3, <4>4, FS_AddElement
      <4>5. Cardinality(Promised) >= 2
        BY <4>1, <4>6, PromisesFinite, FS_Subset
      <4> QED
        BY <2>1, <2>2, <4>5, PromisesFinite
    <3> QED
      BY <3>1, <3>2
  <2> QED
    BY <2>2, <2>4 DEF LogFull
<1> QED
  BY <1>1, <1>2, <1>3, Invariance, PTL DEF Spec

-----------------------------------------------------------------------------
(* What recovery makes of the disk, block by block.                        *)
LEMMA RecoveredAt ==
  ASSUME NEW hd \in Seq(Blocks), Injective(hd), NEW lg, NEW hm
  PROVE  /\ \A i \in 1..Len(hd) : Recovered(hd, lg, hm)[hd[i]] = lg[i]
         /\ \A b \in Blocks \ Rng(hd) : Recovered(hd, lg, hm)[b] = hm[b]
<1>1. \A b \in Blocks \ Rng(hd) : Recovered(hd, lg, hm)[b] = hm[b]
  BY DEF Recovered
<1>2. ASSUME NEW i \in 1..Len(hd) PROVE Recovered(hd, lg, hm)[hd[i]] = lg[i]
  <2>1. i \in DOMAIN hd /\ hd[i] \in Blocks /\ hd[i] \in Rng(hd)
    BY DEF Rng
  <2>2. (CHOOSE j \in DOMAIN hd : hd[j] = hd[i]) = i
    BY <2>1 DEF Injective
  <2> QED
    BY <2>1, <2>2 DEF Recovered
<1> QED
  BY <1>1, <1>2

(* With an empty header recovery changes nothing.                          *)
LEMMA NothingToRecover ==
  ASSUME NEW lg, NEW hm \in [Blocks -> Values]
  PROVE  Recovered(<<>>, lg, hm) = hm
BY EmptySeq DEF Recovered, Rng

(* Nor when every block logged has been copied home.                       *)
LEMMA AllRecovered ==
  ASSUME NEW hd \in Seq(Blocks), Injective(hd), NEW lg,
         NEW hm \in [Blocks -> Values],
         \A i \in 1..Len(hd) : hm[hd[i]] = lg[i]
  PROVE  Recovered(hd, lg, hm) = hm
<1>1. ASSUME NEW b \in Blocks PROVE Recovered(hd, lg, hm)[b] = hm[b]
  <2>1. CASE b \in Rng(hd)
    <3>1. PICK i \in 1..Len(hd) : hd[i] = b
      BY <2>1 DEF Rng
    <3> QED
      BY <3>1, RecoveredAt
  <2> QED
    BY <2>1, RecoveredAt
<1>2. Recovered(hd, lg, hm) = [b \in Blocks |-> Recovered(hd, lg, hm)[b]]
  BY DEF Recovered
<1> QED
  BY <1>1, <1>2

(* When the last end_op() has returned its transaction is durable.         *)
THEOREM QuietIsDurable == Spec => []DurableWhenQuiet
<1>1. LogInv => DurableWhenQuiet
  <2> SUFFICES ASSUME LogInv, phase = "idle", Outstanding = {}
               PROVE  Durable = cache
    BY DEF DurableWhenQuiet
  <2>1. TypeOK /\ head = <<>> /\ lh = <<>> /\ OthersClean
    BY DEF LogInv, PhaseInv
  <2>2. Durable = home
    BY <2>1, NothingToRecover DEF Durable, TypeOK
  <2>3. \A b \in Blocks : cache[b] = home[b]
    BY <2>1 DEF OthersClean, Rng
  <2>4. cache \in [Blocks -> Values] /\ home \in [Blocks -> Values]
    BY <2>1 DEF TypeOK
  <2>5. cache = home
    BY <2>3, <2>4
  <2> QED
    BY <2>2, <2>5
<1> QED
  BY <1>1, Invariance, PTL

(* An operation asleep in begin_op() has somebody to wake it, provided one *)
(* operation fits into the log.                                            *)
THEOREM WakeupNotLost ==
  ASSUME MaxOpBlocks <= LogSize
  PROVE  Spec => []NoLostWakeup
<1> USE DEF NoLostWakeup, Outstanding
<1>1. Init => NoLostWakeup
  BY DEF Init
<1>2. LogInv /\ NoLostWakeup /\ [Next]_vars => NoLostWakeup'
  <2> SUFFICES ASSUME LogInv, NoLostWakeup, [Next]_vars PROVE NoLostWakeup'
    OBVIOUS
  <2> op \in [Ops -> OpStates]
    BY DEF LogInv, TypeOK
  <2>1. ASSUME NEW o \in Ops, Operation(o) PROVE NoLostWakeup'
    <3>1. CASE BeginOp(o)
      <4>1. CASE committing \/ Outstanding # {}
        BY <3>1, <4>1 DEF BeginOp
      <4>2. CASE ~committing /\ Outstanding = {}
        <5>1. lh = <<>>
          BY <3>1, <4>2 DEF BeginOp, Up, LogInv, CommitPhases, RecoveryPhases, TypeOK
        <5>2. Cardinality(Outstanding) = 0
          BY <4>2, FS_EmptySet
        <5>3. Room
          BY <5>1, <5>2, EmptySeq, LogAssumption DEF Room, LogAssumption
        <5> QED
          BY <3>1, <4>2, <5>3 DEF BeginOp
      <4> QED
        BY <4>1, <4>2
    <3>2. CASE CallBeginOp(o)
      BY <3>2 DEF CallBeginOp
    <3>3. CASE EndOp(o)
      BY <3>3 DEF EndOp, Woken
    <3>4. CASE EndLastOp(o)
      BY <3>4 DEF EndLastOp
    <3>5. ASSUME NEW b \in Blocks, NEW v \in Values,
                 LogWritten(o, b, v)
          PROVE  NoLostWakeup'
      BY <3>5 DEF LogWritten
    <3>6. ASSUME NEW b \in Blocks, LogWritePanics(o, b) PROVE NoLostWakeup'
      BY <3>6 DEF LogWritePanics
    <3> QED
      BY <2>1, <3>1, <3>2, <3>3, <3>4, <3>5, <3>6, OperationIs
  <2>2. CASE Commit \/ Recover
    BY <2>2 DEF Commit, Recover, WriteLog, WriteHead, Install, Clear, CommitDone,
                ReadHead, RecoverInstall, RecoverClear, InstallTrans, Woken
  <2>3. CASE Crash \/ UNCHANGED vars
    BY <2>3 DEF Crash, vars
  <2> QED
    BY <2>1, <2>2, <2>3 DEF Next
<1> QED
  BY <1>1, <1>2, Invariance, PTL DEF Spec

-----------------------------------------------------------------------------
(* The steps of the log are steps of AtomicDisk, or stutter.               *)

(* The steps of the operations.                                            *)
LEMMA OperationSimulates ==
  ASSUME LogInv, NEW o \in Ops, Operation(o)
  PROVE  [Disk!Next]_(Disk!diskVars)
<1>1. head' = head /\ logged' = logged /\ home' = home
  BY OperationIs DEF CallBeginOp, BeginOp, EndOp, EndLastOp, LogWritten,
         LogWritePanics, diskVars
<1>2. Durable' = Durable
  BY <1>1 DEF Durable
<1>3. phase \notin RecoveryPhases /\ phase' \notin RecoveryPhases
  BY OperationIs DEF CallBeginOp, BeginOp, EndOp, EndLastOp, LogWritten,
         LogWritePanics, Up, RecoveryPhases
<1>4. View = cache /\ View' = cache'
  BY <1>3 DEF View
<1>5. op \in [Ops -> OpStates]
  BY DEF LogInv, TypeOK
<1> USE <1>2, <1>4, <1>5 DEF Outstanding
<1>6. CASE CallBeginOp(o)
  BY <1>6 DEF CallBeginOp, Disk!diskVars
<1>7. CASE BeginOp(o)
  <2>1. CASE op'[o] = "in"
    <3>1. o \notin Outstanding /\ Outstanding' = Outstanding \cup {o}
          /\ cache' = cache
      BY <1>7, <2>1 DEF BeginOp
    <3>2. Disk!Begin(o)
      BY <3>1 DEF Disk!Begin
    <3> QED
      BY <3>2 DEF Disk!Next
  <2>2. CASE op'[o] # "in"
    BY <1>7, <2>2 DEF BeginOp, Disk!diskVars
  <2> QED
    BY <2>1, <2>2
<1>8. CASE EndOp(o) \/ EndLastOp(o)
  <2>1. o \in Outstanding /\ Outstanding' = Outstanding \ {o} /\ cache' = cache
    BY <1>8 DEF EndOp, EndLastOp, Woken
  <2>2. Disk!End(o)
    BY <2>1 DEF Disk!End
  <2> QED
    BY <2>2 DEF Disk!Next
<1>9. ASSUME NEW b \in Blocks, NEW v \in Values, LogWritten(o, b, v)
      PROVE  Disk!Next
  <2>1. o \in Outstanding /\ Outstanding' = Outstanding
        /\ cache' = [cache EXCEPT ![b] = v]
    BY <1>9 DEF LogWritten
  <2>2. Disk!Write(o, b, v)
    BY <2>1 DEF Disk!Write
  <2> QED
    BY <2>2 DEF Disk!Next
<1>10. ASSUME NEW b \in Blocks, LogWritePanics(o, b)
       PROVE  UNCHANGED Disk!diskVars
  BY <1>10 DEF LogWritePanics, Disk!diskVars
<1> QED
  BY <1>6, <1>7, <1>8, <1>9, <1>10, OperationIs

(* The write of the header is the moment of commit ...                     *)
LEMMA WriteHeadSyncs ==
  ASSUME LogInv, WriteHead
  PROVE  Disk!Sync
<1>1. /\ phase = "write_head" /\ phase' = "install" /\ head' = lh
      /\ home' = home /\ logged' = logged /\ cache' = cache /\ op' = op
  BY DEF WriteHead
<1>2. Outstanding = {} /\ Outstanding' = {}
  BY <1>1 DEF LogInv, Outstanding
<1>3. View = cache /\ View' = cache
  BY <1>1 DEF View, RecoveryPhases
<1>4. /\ \A i \in 1..Len(head') : Durable'[head'[i]] = logged[i]
      /\ \A b \in Blocks \ Rng(head') : Durable'[b] = home[b]
  <2>1. lh \in Seq(Blocks) /\ Injective(lh)
    BY DEF LogInv, TypeOK
  <2>2. Durable' = Recovered(lh, logged, home)
    BY <1>1 DEF Durable
  <2> QED
    BY <1>1, <2>1, <2>2, RecoveredAt
<1>5. ASSUME NEW b \in Blocks PROVE Durable'[b] = cache[b]
  <2>1. CASE b \in Rng(lh)
    <3>1. PICK i \in 1..Len(lh) : lh[i] = b
      BY <2>1 DEF Rng, LogInv, TypeOK
    <3> QED
      BY <1>1, <1>4, <3>1 DEF LogInv, PhaseInv, CopiedToLog
  <2>2. CASE b \notin Rng(lh)
    BY <1>1, <1>4, <2>2 DEF LogInv, PhaseInv, OthersClean
  <2> QED
    BY <2>1, <2>2
<1>6. Durable' = cache
  <2>1. Durable' = [b \in Blocks |-> Durable'[b]] /\ cache \in [Blocks -> Values]
    BY DEF Durable, Recovered, LogInv, TypeOK
  <2> QED
    BY <1>5, <2>1
<1> QED
  BY <1>2, <1>3, <1>6 DEF Disk!Sync

(* ... and every other step of commit() and of recovery changes neither    *)
(* what a reboot finds nor what the operations read.                       *)
LEMMA CopyStutters ==
  ASSUME LogInv, LogInv', Install \/ RecoverInstall
  PROVE  UNCHANGED Disk!diskVars
<1> DEFINE next == IF phase = "install" THEN "clear" ELSE "r_clear"
<1>1. /\ InstallTrans(next) /\ phase \in {"install", "r_install"}
      /\ phase' \in {phase, next}
  BY DEF Install, RecoverInstall, InstallTrans
<1>2. /\ lh \in Seq(Blocks) /\ Injective(lh) /\ head = lh
      /\ head' = lh /\ logged' = logged /\ op' = op
      /\ tail \in 1..Len(lh) /\ lh[tail] \in Blocks
      /\ tail \in 1..LogSize
  BY <1>1, LogAssumption DEF InstallTrans, LogInv, TypeOK, PhaseInv, LogAssumption
<1>3. /\ home' = [home EXCEPT ![lh[tail]] = logged[tail]]
      /\ cache' = [cache EXCEPT ![lh[tail]] = logged[tail]]
      /\ home \in [Blocks -> Values] /\ cache \in [Blocks -> Values]
  BY <1>1 DEF InstallTrans, LogInv, TypeOK
<1>4. Durable' = Durable
  <2>1. ASSUME NEW b \in Blocks PROVE Durable'[b] = Durable[b]
    <3>1. CASE b \in Rng(lh)
      <4>1. PICK i \in 1..Len(lh) : lh[i] = b
        BY <1>2, <3>1 DEF Rng
      <4> QED
        BY <1>2, <4>1, RecoveredAt DEF Durable
    <3>2. CASE b \notin Rng(lh)
      <4>1. Durable[b] = home[b] /\ Durable'[b] = home'[b]
        BY <1>2, <3>2, RecoveredAt DEF Durable
      <4>2. b # lh[tail]
        BY <1>2, <3>2 DEF Rng
      <4> QED
        BY <1>3, <4>1, <4>2
    <3> QED
      BY <3>1, <3>2
  <2>2. /\ Durable = [b \in Blocks |-> Durable[b]]
        /\ Durable' = [b \in Blocks |-> Durable'[b]]
    BY DEF Durable, Recovered
  <2> QED
    BY <2>1, <2>2
<1>5. View' = View
  <2>1. CASE phase = "install"
    <3>1. logged[tail] = cache[lh[tail]]
      BY <1>2, <2>1 DEF LogInv, PhaseInv, CopiedToLog
    <3>2. cache' = cache
      BY <1>2, <1>3, <3>1
    <3> QED
      BY <1>1, <2>1, <3>2 DEF View, RecoveryPhases
  <2>2. CASE phase = "r_install"
    BY <1>1, <1>4, <2>2 DEF View, RecoveryPhases
  <2> QED
    BY <1>1, <2>1, <2>2
<1> QED
  BY <1>2, <1>4, <1>5 DEF Disk!diskVars, Outstanding

(* Clearing the header, in commit() and at the end of recovery.            *)
LEMMA ClearStutters ==
  ASSUME LogInv, Clear \/ RecoverClear
  PROVE  UNCHANGED Disk!diskVars
<1>1. /\ phase \in {"clear", "r_clear"} /\ phase' \in {"done", "idle"}
      /\ phase = "clear" => phase' = "done"
      /\ head' = <<>> /\ home' = home /\ logged' = logged /\ cache' = cache
      /\ op' = op
  BY DEF Clear, RecoverClear
<1>2. /\ head \in Seq(Blocks) /\ Injective(head) /\ head = lh /\ cache = home
      /\ home \in [Blocks -> Values]
      /\ \A i \in 1..Len(head) : home[head[i]] = logged[i]
  BY <1>1 DEF LogInv, TypeOK, PhaseInv, CopiedHome
<1>3. Durable = home
  BY <1>2, AllRecovered DEF Durable
<1>4. Durable' = home
  BY <1>1, <1>2, NothingToRecover DEF Durable
<1>5. View = home /\ View' = home
  BY <1>1, <1>2, <1>3, <1>4 DEF View, RecoveryPhases
<1> QED
  BY <1>1, <1>3, <1>4, <1>5 DEF Disk!diskVars, Outstanding

(* The steps that touch neither the disk nor the cache.                    *)
LEMMA QuietStutters ==
  ASSUME LogInv, CommitDone \/ ReadHead
  PROVE  UNCHANGED Disk!diskVars
<1>1. /\ home' = home /\ logged' = logged /\ head' = head /\ cache' = cache
      /\ phase \in RecoveryPhases <=> phase' \in RecoveryPhases
  BY DEF CommitDone, ReadHead, RecoveryPhases, diskVars
<1>2. Durable' = Durable /\ View' = View
  BY <1>1 DEF Durable, View
<1>3. Outstanding' = Outstanding
  BY DEF CommitDone, ReadHead, Woken, Outstanding, LogInv, TypeOK
<1> QED
  BY <1>2, <1>3 DEF Disk!diskVars

(* Copying a block to the log: the header on disk is empty still.          *)
LEMMA WriteLogStutters ==
  ASSUME LogInv, LogInv', WriteLog
  PROVE  UNCHANGED Disk!diskVars
<1>1. /\ head = <<>> /\ head' = <<>> /\ home' = home /\ cache' = cache
      /\ op' = op /\ home \in [Blocks -> Values]
      /\ phase \notin RecoveryPhases /\ phase' \notin RecoveryPhases
  BY DEF WriteLog, LogInv, PhaseInv, TypeOK, RecoveryPhases
<1>2. Durable = home /\ Durable' = home
  BY <1>1, NothingToRecover DEF Durable
<1> QED
  BY <1>1, <1>2 DEF Disk!diskVars, View, Outstanding

(* A crash takes the operations back to what is durable.                   *)
LEMMA CrashSimulates ==
  ASSUME LogInv, Crash
  PROVE  Disk!Crash
<1>1. Durable' = Durable
  BY DEF Crash, Durable, diskVars
<1>2. View' = Durable
  BY <1>1 DEF Crash, View, RecoveryPhases
<1>3. Outstanding' = {}
  BY DEF Crash, Outstanding
<1> QED
  BY <1>1, <1>2, <1>3 DEF Disk!Crash

(* The log makes the file system's transactions atomic over crashes, also  *)
(* a crash during commit() or during recovery: it implements AtomicDisk,   *)
(* for any number of operations and blocks and any size of the log.        *)
THEOREM LogImplementsAtomicDisk == Spec => DiskSpec
<1>1. Init => Disk!Init
  <2> SUFFICES ASSUME Init PROVE Disk!Init
    OBVIOUS
  <2>1. /\ head = <<>> /\ home = [b \in Blocks |-> InitialValue] /\ cache = home
        /\ phase = "idle" /\ home \in [Blocks -> Values] /\ Outstanding = {}
    BY LogAssumption DEF Init, LogAssumption, Outstanding
  <2>2. Durable = home
    BY <2>1, NothingToRecover DEF Durable
  <2> QED
    BY <2>1, <2>2 DEF Disk!Init, View, RecoveryPhases
<1>2. LogInv /\ LogInv' /\ [Next]_vars => [Disk!Next]_(Disk!diskVars)
  <2> SUFFICES ASSUME LogInv, LogInv', [Next]_vars
               PROVE  [Disk!Next]_(Disk!diskVars)
    OBVIOUS
  <2>1. CASE \E o \in Ops : Operation(o)
    BY <2>1, OperationSimulates
  <2>2. CASE WriteHead
    BY <2>2, WriteHeadSyncs DEF Disk!Next
  <2>3. CASE Install \/ RecoverInstall \/ Clear \/ RecoverClear
    BY <2>3, CopyStutters, ClearStutters
  <2>4. CASE CommitDone \/ ReadHead \/ WriteLog
    BY <2>4, QuietStutters, WriteLogStutters
  <2>5. CASE Crash
    BY <2>5, CrashSimulates DEF Disk!Next
  <2>6. CASE UNCHANGED vars
    BY <2>6 DEF vars, Disk!diskVars, Durable, View, Outstanding
  <2> QED
    BY <2>1, <2>2, <2>3, <2>4, <2>5, <2>6 DEF Next, Commit, Recover
<1> QED
  BY <1>1, <1>2, Invariance, PTL DEF Spec, DiskSpec, Disk!Spec

=============================================================================
