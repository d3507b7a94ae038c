---------------------------- MODULE ImapSessions_proofs ----------------------------
(***************************************************************************)
(* Proofs about the IMAP provider of one account, for every number of           *)
(* callers, calls, permits, kept sessions and changes of the settings: folder   *)
(* changes are alone with the paths of the account, no call works on a session  *)
(* that was opened with other settings, the budget of permits covers the open   *)
(* sessions and leaves a slot for interactive calls, and kept sessions are      *)
(* closed by their own reaper only.                                             *)
(***************************************************************************)
EXTENDS ImapSessions, FiniteSetTheorems, TLAPS

CallType == [kind : Kind, at : Place, account : Nat, selective : BOOLEAN,
             permits : Nat, sessions : Nat, with : Nat]

Types ==
    /\ call \in [Tasks -> CallType]
    /\ credentials \in Nat

\* The path lock: who changes paths uses them alone, from the lock to the end of the call.
\* It is granted long before there is a session, so that this says more than the
\* property.
WritersAreAlone == \A t, u \in Tasks : (ChangesPaths(t) /\ u # t) => ~UsesPaths(u)

\* Sessions are opened under the lock, and dropped with it.
SessionsNeedLock == \A t \in Tasks : call[t].sessions > 0 => UsesPaths(t)

SessionsInv == Types /\ WritersAreAlone /\ SessionsNeedLock /\ SessionsFitAccount

-----------------------------------------------------------------------------

\* Nobody calls in the first state.
LEMMA SessionsInit == Init => SessionsInv
<1> SUFFICES ASSUME Init PROVE SessionsInv
  OBVIOUS
<1>1. NoCall \in CallType /\ NoCall.at = "idle" /\ NoCall.sessions = 0
  BY DEF NoCall, CallType, Kind, Place
<1>2. call = [t \in Tasks |-> NoCall] /\ credentials = 0
  BY DEF Init
<1> QED BY <1>1, <1>2
        DEF SessionsInv, Types, WritersAreAlone, SessionsNeedLock, SessionsFitAccount,
            UsesPaths, ChangesPaths

\* A step of one call: it takes the path lock, which only LockPaths does and only if
\* the lock allows it, or stays where it is with regard to it, or lets it go; and what
\* sessions it has are under the lock and fit its settings.
LEMMA CallMoves ==
  ASSUME SessionsInv, NEW t \in Tasks, NEW c \in CallType,
         call' = [call EXCEPT ![t] = c], credentials' \in Nat,
         c.sessions > 0 => /\ c.at \in {"checkout", "noop", "permits", "connect", "work"}
                           /\ c.with = c.account,
         c.at \in {"checkout", "noop", "permits", "connect", "work"} =>
             \/ UsesPaths(t) /\ c.kind = call[t].kind
             \/ c.kind = "apply_mailbox_operation" /\ ~\E u \in Tasks : UsesPaths(u)
             \/ c.kind # "apply_mailbox_operation" /\ ~\E u \in Tasks : ChangesPaths(u)
  PROVE  SessionsInv'
<1>1. \A u \in Tasks : call'[u] = IF u = t THEN c ELSE call[u]
  BY DEF SessionsInv, Types
<1>2. Types'
  BY DEF SessionsInv, Types
<1>3. SessionsNeedLock' /\ SessionsFitAccount'
  BY <1>1 DEF SessionsInv, SessionsNeedLock, SessionsFitAccount, UsesPaths
<1>4. \A u \in Tasks : u # t => (UsesPaths(u)' <=> UsesPaths(u))
                                /\ (ChangesPaths(u)' <=> ChangesPaths(u))
  BY <1>1 DEF UsesPaths, ChangesPaths
<1>5. UsesPaths(t)' => \/ UsesPaths(t) /\ (ChangesPaths(t)' <=> ChangesPaths(t))
                       \/ ChangesPaths(t)' /\ ~\E u \in Tasks : UsesPaths(u)
                       \/ ~ChangesPaths(t)' /\ ~\E u \in Tasks : ChangesPaths(u)
  BY <1>1 DEF UsesPaths, ChangesPaths
<1>6. \A u \in Tasks : (ChangesPaths(u) => UsesPaths(u)) /\ (ChangesPaths(u)' => UsesPaths(u)')
  BY DEF ChangesPaths, UsesPaths
<1>7. WritersAreAlone'
  BY <1>4, <1>5, <1>6 DEF SessionsInv, WritersAreAlone
<1> QED BY <1>2, <1>3, <1>7 DEF SessionsInv

\* The steps of a call, from its beginning to its return.
LEMMA CallsKeep ==
  ASSUME SessionsInv, NEW t \in Tasks, Proceed(t) \/ Request(t)
  PROVE  SessionsInv'
<1> DEFINE c == call[t]
<1>t. c \in CallType /\ credentials \in Nat
  BY DEF SessionsInv, Types
<1>i. /\ c.sessions > 0 => UsesPaths(t) /\ c.with = c.account
  BY DEF SessionsInv, SessionsNeedLock, SessionsFitAccount
<1>b. ASSUME NEW kind \in Kind, NEW place \in {"sync_lock", "path_lock"}, Begin(t, kind, place)
      PROVE  SessionsInv'
  <2> DEFINE n == [NoCall EXCEPT !.kind = kind, !.at = place, !.account = credentials]
  <2>1. NoCall \in CallType /\ NoCall.sessions = 0
    BY DEF NoCall, CallType, Kind, Place
  <2>2. n \in CallType /\ n.at = place /\ n.sessions = 0
    BY <1>t, <2>1 DEF CallType, Place
  <2>3. call' = [call EXCEPT ![t] = n] /\ credentials' = credentials
    BY <1>b DEF Begin
  <2> HIDE DEF n
  <2>4. ~(n.sessions > 0)
    BY <2>2
  <2> QED BY <1>t, <2>2, <2>3, <2>4, CallMoves
<1>n. ASSUME call' = [call EXCEPT ![t] = NoCall], credentials' = credentials
      PROVE  SessionsInv'
  <2>1. NoCall \in CallType /\ NoCall.at = "idle" /\ NoCall.sessions = 0
    BY DEF NoCall, CallType, Kind, Place
  <2>2. ~(NoCall.sessions > 0)
    BY <2>1
  <2> QED BY <1>t, <1>n, <2>1, <2>2, CallMoves
<1>d. ASSUME NEW place \in {"checkout", "permits"}, NEW s \in BOOLEAN,
             DropSessions(t, place, s), UsesPaths(t), credentials' = credentials
      PROVE  SessionsInv'
  <2> DEFINE n == [c EXCEPT !.at = place, !.selective = s, !.permits = 0, !.sessions = 0]
  <2>1. n \in CallType /\ n.at = place /\ n.sessions = 0 /\ n.kind = c.kind
    BY <1>t DEF CallType, Place
  <2>2. call' = [call EXCEPT ![t] = n]
    BY <1>d DEF DropSessions
  <2> HIDE DEF n
  <2>3. ~(n.sessions > 0)
    BY <2>1
  <2> QED BY <1>d, <1>t, <2>1, <2>2, <2>3, CallMoves
<1>1. CASE Request(t)
  BY <1>1, <1>b
  DEF Request, Synchronize, SynchronizeMailbox, FetchMessageBody, FetchMessage,
      ApplyMailboxOperation, QueueForPaths, Kind
<1>2. CASE LockSync(t)
  <2> DEFINE n == [c EXCEPT !.at = "path_lock"]
  <2>1. n \in CallType /\ n.at = "path_lock" /\ n.sessions = c.sessions /\ n.kind = c.kind
    BY <1>t DEF CallType, Place
  <2>2. call' = [call EXCEPT ![t] = n] /\ credentials' = credentials /\ ~UsesPaths(t)
    BY <1>2 DEF LockSync, UsesPaths
  <2>3. ~(n.sessions > 0)
    BY <1>i, <2>1, <2>2
  <2> HIDE DEF n
  <2> QED BY <1>t, <2>1, <2>2, <2>3, CallMoves
<1>3. CASE LockPaths(t)
  <2>1. PICK place \in {"checkout", "permits"} :
          call' = [call EXCEPT ![t].selective = Selective, ![t].at = place]
    BY <1>3 DEF LockPaths
  <2> DEFINE n == [c EXCEPT !.selective = Selective, !.at = place]
  <2>2. Selective \in BOOLEAN
    BY Zenon DEF Selective
  <2>3. n \in CallType /\ n.at = place /\ n.sessions = c.sessions /\ n.kind = c.kind
    BY <1>t, <2>2 DEF CallType, Place
  <2>m. call' = [call EXCEPT ![t] = n]
    BY <2>1
  <2>4. call' = [call EXCEPT ![t] = n] /\ credentials' = credentials /\ ~UsesPaths(t)
    BY <1>3, <2>m DEF LockPaths, UsesPaths
  <2>5. ~(n.sessions > 0)
    BY <1>i, <2>3, <2>4
  <2>6. IF n.kind = "apply_mailbox_operation"
        THEN ~\E u \in Tasks : UsesPaths(u)
        ELSE ~\E u \in Tasks : ChangesPaths(u)
    BY <1>3, <2>3 DEF LockPaths
  <2> HIDE DEF n
  <2> QED BY <1>t, <2>3, <2>4, <2>5, <2>6, CallMoves
<1>4. CASE CheckoutSyncSessions(t)
  <2>u. UsesPaths(t) /\ credentials' = credentials
    BY <1>4 DEF CheckoutSyncSessions, UsesPaths
  <2>1. ASSUME IsReusable(t),
               call' = [call EXCEPT ![t].at = "noop", ![t].permits = pool.permits,
                            ![t].sessions = pool.sessions, ![t].with = pool.fingerprint]
        PROVE  SessionsInv'
    <3>1. /\ pool.permits \in Nat /\ pool.sessions \in Nat
          /\ pool.fingerprint = c.account
      BY <2>1, SessionsAssumption DEF IsReusable, AccountFingerprint
    <3> DEFINE n == [c EXCEPT !.at = "noop", !.permits = pool.permits,
                              !.sessions = pool.sessions, !.with = pool.fingerprint]
    <3>2. n \in CallType /\ n.at = "noop" /\ n.kind = c.kind /\ n.with = n.account
      BY <1>t, <3>1 DEF CallType, Place
    <3>3. call' = [call EXCEPT ![t] = n]
      BY <2>1
    <3> HIDE DEF n
    <3> QED BY <1>t, <2>u, <3>2, <3>3, CallMoves
  <2>2. ASSUME call' = [call EXCEPT ![t].at = "permits"] PROVE SessionsInv'
    <3> DEFINE n == [c EXCEPT !.at = "permits"]
    <3>1. /\ n \in CallType /\ n.at = "permits" /\ n.kind = c.kind
          /\ n.sessions = c.sessions /\ n.with = c.with /\ n.account = c.account
      BY <1>t DEF CallType, Place
    <3>2. call' = [call EXCEPT ![t] = n]
      BY <2>2
    <3> HIDE DEF n
    <3> QED BY <1>t, <1>i, <2>u, <3>1, <3>2, CallMoves
  <2> QED BY <1>4, <2>1, <2>2 DEF CheckoutSyncSessions
<1>5. ASSUME NEW healthy \in BOOLEAN, Noop(t, healthy) PROVE SessionsInv'
  <2>u. UsesPaths(t) /\ credentials' = credentials
    BY <1>5 DEF Noop, UsesPaths
  <2>1. ASSUME call' = [call EXCEPT ![t].at = "work"] PROVE SessionsInv'
    <3> DEFINE n == [c EXCEPT !.at = "work"]
    <3>1. /\ n \in CallType /\ n.at = "work" /\ n.kind = c.kind
          /\ n.sessions = c.sessions /\ n.with = c.with /\ n.account = c.account
      BY <1>t DEF CallType, Place
    <3>2. call' = [call EXCEPT ![t] = n]
      BY <2>1
    <3> HIDE DEF n
    <3> QED BY <1>t, <1>i, <2>u, <3>1, <3>2, CallMoves
  <2>2. c.selective \in BOOLEAN
    BY <1>t DEF CallType
  <2> QED BY <1>5, <1>d, <2>u, <2>1, <2>2 DEF Noop
<1>6. CASE Acquire(t)
  <2>1. PICK place \in {"permits", "connect"} :
          call' = [call EXCEPT ![t].permits = @ + 1, ![t].at = place]
    BY <1>6 DEF Acquire
  <2> DEFINE more == c.permits + 1
             n == [c EXCEPT !.permits = more, !.at = place]
  <2>n. more \in Nat
    BY <1>t DEF CallType
  <2> HIDE DEF more
  <2>2. /\ n \in CallType /\ n.at = place /\ n.kind = c.kind
        /\ n.sessions = c.sessions /\ n.with = c.with /\ n.account = c.account
    BY <1>t, <2>n DEF CallType, Place
  <2>m. call' = [call EXCEPT ![t] = n]
    BY <2>1 DEF more
  <2>3. call' = [call EXCEPT ![t] = n] /\ credentials' = credentials /\ UsesPaths(t)
    BY <1>6, <2>m DEF Acquire, UsesPaths
  <2> HIDE DEF n
  <2> QED BY <1>t, <1>i, <2>2, <2>3, CallMoves
<1>7. CASE ConnectSession(t)
  <2>1. PICK place \in {"connect", "work"} :
          call' = [call EXCEPT ![t].sessions = @ + 1, ![t].with = c.account, ![t].at = place]
    BY <1>7 DEF ConnectSession
  <2> DEFINE more == c.sessions + 1
             n == [c EXCEPT !.sessions = more, !.with = c.account, !.at = place]
  <2>n. more \in Nat
    BY <1>t DEF CallType
  <2> HIDE DEF more
  <2>2. n \in CallType /\ n.at = place /\ n.kind = c.kind /\ n.with = n.account
    BY <1>t, <2>n DEF CallType, Place
  <2>m. call' = [call EXCEPT ![t] = n]
    BY <2>1 DEF more
  <2>3. call' = [call EXCEPT ![t] = n] /\ credentials' = credentials /\ UsesPaths(t)
    BY <1>7, <2>m DEF ConnectSession, UsesPaths
  <2> HIDE DEF n
  <2> QED BY <1>t, <2>2, <2>3, CallMoves
<1>8. CASE Fail(t) \/ Finish(t) \/ StoreSyncSessions(t) \/ SelectiveFetchUnsupported(t)
  BY <1>8, <1>n DEF Fail, Finish, StoreSyncSessions, SelectiveFetchUnsupported, Return
<1>9. CASE Incompatible(t)
  BY <1>9, <1>d DEF Incompatible, UsesPaths
<1> QED BY <1>1, <1>2, <1>3, <1>4, <1>5, <1>6, <1>7, <1>8, <1>9 DEF Proceed

\* The steps that are nobody's call.
LEMMA OthersKeep ==
  ASSUME SessionsInv, UNCHANGED call, credentials' \in Nat
  PROVE  SessionsInv'
  BY DEF SessionsInv, Types, WritersAreAlone, SessionsNeedLock, SessionsFitAccount,
         UsesPaths, ChangesPaths

\* The invariant is inductive.
LEMMA InvariantHolds == Spec => []SessionsInv
<1>1. SessionsInv /\ [Next]_vars => SessionsInv'
  <2> SUFFICES ASSUME SessionsInv, [Next]_vars PROVE SessionsInv'
    OBVIOUS
  <2>t. credentials \in Nat
    BY DEF SessionsInv, Types
  <2>1. ASSUME NEW t \in Tasks, Proceed(t) \/ Request(t) PROVE SessionsInv'
    BY <2>1, CallsKeep
  <2>2. ASSUME NEW s \in Stamps, Reap(s) PROVE SessionsInv'
    BY <2>2, <2>t, OthersKeep DEF Reap, IdleTtlElapses, CloseIdleSessions
  <2>3. CASE ChangeCredentials
    BY <2>3, <2>t, OthersKeep DEF ChangeCredentials
  <2>4. CASE UNCHANGED vars
    BY <2>4, <2>t, OthersKeep DEF vars
  <2> QED BY <2>1, <2>2, <2>3, <2>4 DEF Next
<1> QED BY SessionsInit, <1>1, PTL DEF Spec

-----------------------------------------------------------------------------

\* While a folder is created, renamed or deleted no other call has a session, kept
\* sessions that were taken over and calls that lost theirs included: the path lock is
\* asked before the first session and given back after the last.
THEOREM FoldersChangeAlone == Spec => []FolderChangesAreAlone
<1>1. SessionsInv => FolderChangesAreAlone
  BY DEF SessionsInv, Types, CallType, WritersAreAlone, SessionsNeedLock, FolderChangesAreAlone
<1> QED BY InvariantHolds, <1>1, PTL

\* No call works on a session that was opened with other settings or another password
\* than its own, although sessions are kept from one call to the next: they are taken
\* over only if the fingerprint is the same.
THEOREM SessionsBelong == Spec => []SessionsFitAccount
<1>1. SessionsInv => SessionsFitAccount
  BY DEF SessionsInv
<1> QED BY InvariantHolds, <1>1, PTL

-----------------------------------------------------------------------------
(* The budget of permits *)

\* What a call holds at each place: everything it asked for, or nothing.
Shape(t) ==
    /\ call[t].at \in {"idle", "sync_lock", "path_lock", "checkout"} =>
         call[t].permits = 0 /\ call[t].sessions = 0
    /\ call[t].at \in {"sync_lock", "checkout", "noop"} => call[t].kind = "synchronize"
    /\ call[t].at = "permits" => call[t].permits < Wanted(t) /\ call[t].sessions = 0
    /\ call[t].at = "connect" => call[t].permits = Wanted(t) /\ call[t].sessions < Wanted(t)
    /\ call[t].at \in {"noop", "work"} => call[t].permits = Wanted(t)
                                          /\ call[t].sessions = Wanted(t)

\* The lock between synchronizations, which one holds until it returns.
SyncsAreAlone == \A t, u \in Tasks : PastSyncLock(t) /\ PastSyncLock(u) => t = u

\* Sessions are kept together or not at all, and not beside those of a synchronization.
HasKept(t) == call[t].kind = "synchronize" /\ call[t].at \in {"noop", "permits", "connect", "work"}
PoolIsWhole == pool # NoPool => pool.permits = SyncSessionCount /\ pool.sessions = SyncSessionCount
PoolIsTaken == \A t \in Tasks : HasKept(t) => pool = NoPool

\* Who waits is in the queue, once for every permit it still needs.
Waits(q, t) == \E i \in 1 .. Len(q) : q[i] = t
Requests(q, t, n) == \E s \in 0 .. Len(q) : /\ s + n <= Len(q)
                                            /\ \A i \in s + 1 .. s + n : q[i] = t
WaitersAreQueued == \A t \in Tasks :
    /\ call[t].at = "sync_lock" => Waits(syncQueue, t)
    /\ call[t].at = "path_lock" => Waits(pathQueue, t)
    /\ call[t].at = "permits" => Requests(permitQueue, t, Wanted(t) - call[t].permits)

\* Every call may keep its sessions: there is a stamp left for it.
Calling == {t \in Tasks : call[t].at # "idle"}
Born == {s \in Stamps : reapers[s] # "unborn"}
StampsLast == Cardinality(Calling) + Cardinality(Born) <= made

BudgetInv ==
    /\ TypeOK /\ \A t \in Tasks : Shape(t)
    /\ SyncsAreAlone /\ PoolIsWhole /\ PoolIsTaken /\ WaitersAreQueued /\ StampsLast
    /\ PermitsInUse <= AccountSessionLimit

-----------------------------------------------------------------------------

LEMMA PermitsAreFinite ==
  /\ IsFiniteSet(PermitsHeld) /\ Cardinality(PermitsHeld) \in Nat
  /\ IsFiniteSet(SessionsHeld) /\ Cardinality(SessionsHeld) \in Nat
<1>1. SyncSessionCount \in Nat
  BY SessionsAssumption
<1>2. IsFiniteSet(1 .. SyncSessionCount)
  BY <1>1, FS_Interval
<1>3. IsFiniteSet(Tasks \X (1 .. SyncSessionCount))
  BY <1>2, SessionsAssumption, FS_Product
<1>4. /\ PermitsHeld \subseteq Tasks \X (1 .. SyncSessionCount)
      /\ SessionsHeld \subseteq Tasks \X (1 .. SyncSessionCount)
  BY DEF PermitsHeld, SessionsHeld
<1>5. IsFiniteSet(PermitsHeld) /\ IsFiniteSet(SessionsHeld)
  BY <1>3, <1>4, FS_Subset
<1> QED BY <1>5, FS_CardinalityType

\* The permits of a call are as many as it holds.
LEMMA OwnPermits ==
  ASSUME NEW t, NEW n \in Nat
  PROVE  /\ IsFiniteSet({t} \X (1 .. n)) /\ Cardinality({t} \X (1 .. n)) = n
<1>1. IsFiniteSet(1 .. n) /\ Cardinality(1 .. n) = n
  BY FS_Interval
<1>2. IsFiniteSet({t}) /\ Cardinality({t}) = 1
  BY FS_Singleton
<1>3. /\ IsFiniteSet({t} \X (1 .. n))
      /\ Cardinality({t} \X (1 .. n)) = Cardinality({t}) * Cardinality(1 .. n)
  BY <1>1, <1>2, FS_Product
<1> QED BY <1>1, <1>2, <1>3

LEMMA DisjointUnion ==
  ASSUME NEW S, IsFiniteSet(S), NEW T, IsFiniteSet(T), S \cap T = {}
  PROVE  Cardinality(S \cup T) = Cardinality(S) + Cardinality(T)
<1>1. Cardinality(S \cap T) = 0
  BY FS_EmptySet
<1>2. Cardinality(S) \in Nat /\ Cardinality(T) \in Nat
  BY FS_CardinalityType
<1>3. Cardinality(S \cup T) = Cardinality(S) + Cardinality(T) - Cardinality(S \cap T)
  BY FS_Union
<1> QED BY <1>1, <1>2, <1>3

\* When one call gets or drops permits, so does the budget.
LEMMA PermitsChange ==
  ASSUME call \in [Tasks -> Call], call' \in [Tasks -> Call], NEW t \in Tasks,
         \A u \in Tasks \ {t} : call'[u] = call[u]
  PROVE  Cardinality(PermitsHeld') =
           Cardinality(PermitsHeld) - call[t].permits + call'[t].permits
<1>s. SyncSessionCount \in Nat
  BY SessionsAssumption
<1>t. /\ call[t].permits \in 0 .. SyncSessionCount
      /\ call'[t].permits \in 0 .. SyncSessionCount
  BY DEF Call
<1> DEFINE Others == {p \in PermitsHeld : p[1] # t}
           Own == {t} \X (1 .. call[t].permits)
           Now == {t} \X (1 .. call'[t].permits)
<1>1. PermitsHeld = Others \cup Own /\ Others \cap Own = {}
  BY <1>s, <1>t DEF PermitsHeld
<1>2. PermitsHeld' = Others \cup Now /\ Others \cap Now = {}
  BY <1>s, <1>t DEF PermitsHeld
<1>3. IsFiniteSet(Others) /\ Cardinality(Others) \in Nat
  <2>1. Others \subseteq PermitsHeld
    OBVIOUS
  <2> QED BY <2>1, PermitsAreFinite, FS_Subset, FS_CardinalityType
<1>4. /\ IsFiniteSet(Own) /\ Cardinality(Own) = call[t].permits
      /\ IsFiniteSet(Now) /\ Cardinality(Now) = call'[t].permits
  <2>1. call[t].permits \in Nat /\ call'[t].permits \in Nat
    BY <1>s, <1>t
  <2>2. \A n \in Nat : IsFiniteSet({t} \X (1 .. n)) /\ Cardinality({t} \X (1 .. n)) = n
    BY OwnPermits
  <2> QED BY <2>1, <2>2
<1> HIDE DEF Others, Own, Now
<1>5. Cardinality(PermitsHeld) = Cardinality(Others) + call[t].permits
  BY <1>1, <1>3, <1>4, DisjointUnion
<1>6. Cardinality(PermitsHeld') = Cardinality(Others) + call'[t].permits
  BY <1>2, <1>3, <1>4, DisjointUnion
<1> QED BY <1>3, <1>5, <1>6, <1>s, <1>t

-----------------------------------------------------------------------------
(* The queues *)

LEMMA QueuesGrow ==
  ASSUME NEW q \in Seq(Tasks), NEW t \in Tasks, NEW u \in Tasks
  PROVE  /\ Append(q, t) \in Seq(Tasks)
         /\ Waits(Append(q, t), t)
         /\ Waits(q, u) => Waits(Append(q, t), u)
         /\ Requests(Append(q, t), t, 1)
         /\ \A n \in Nat : Requests(q, u, n) => Requests(Append(q, t), u, n)
<1>1. /\ Append(q, t) \in Seq(Tasks) /\ Len(Append(q, t)) = Len(q) + 1 /\ Len(q) \in Nat
      /\ \A i \in 1 .. Len(q) : Append(q, t)[i] = q[i]
      /\ Append(q, t)[Len(q) + 1] = t
  OBVIOUS
<1>2. Waits(Append(q, t), t)
  BY <1>1 DEF Waits
<1>3. Waits(q, u) => Waits(Append(q, t), u)
  BY <1>1 DEF Waits
<1>4. Requests(Append(q, t), t, 1)
  <2>1. \A i \in Len(q) + 1 .. Len(q) + 1 : Append(q, t)[i] = t
    BY <1>1
  <2> QED BY <1>1, <2>1 DEF Requests
<1>5. ASSUME NEW n \in Nat, Requests(q, u, n) PROVE Requests(Append(q, t), u, n)
  <2>1. PICK s \in 0 .. Len(q) : s + n <= Len(q) /\ \A i \in s + 1 .. s + n : q[i] = u
    BY <1>5 DEF Requests
  <2>2. \A i \in s + 1 .. s + n : i \in 1 .. Len(q)
    BY <1>1, <2>1
  <2>3. \A i \in s + 1 .. s + n : Append(q, t)[i] = u
    BY <1>1, <2>1, <2>2
  <2>4. s \in 0 .. Len(Append(q, t)) /\ s + n <= Len(Append(q, t))
    BY <1>1, <2>1
  <2> QED BY <2>3, <2>4 DEF Requests
<1> QED BY <1>1, <1>2, <1>3, <1>4, <1>5

LEMMA RequestsGrow ==
  ASSUME permitQueue \in Seq(Tasks), NEW t \in Tasks, NEW u \in Tasks
  PROVE  /\ ThreeRequests(t) \in Seq(Tasks)
         /\ Requests(ThreeRequests(t), t, SyncSessionCount)
         /\ \A n \in Nat : Requests(permitQueue, u, n) => Requests(ThreeRequests(t), u, n)
<1>s. SyncSessionCount \in Nat
  BY SessionsAssumption
<1> DEFINE q == permitQueue
           r == [n \in 1 .. SyncSessionCount |-> t]
<1>r. r \in Seq(Tasks) /\ Len(r) = SyncSessionCount
  BY <1>s
<1>1. /\ q \o r \in Seq(Tasks) /\ Len(q \o r) = Len(q) + SyncSessionCount /\ Len(q) \in Nat
      /\ \A i \in 1 .. Len(q) : (q \o r)[i] = q[i]
      /\ \A i \in Len(q) + 1 .. Len(q) + SyncSessionCount : (q \o r)[i] = t
  BY <1>s, <1>r
<1>2. ThreeRequests(t) = q \o r
  BY DEF ThreeRequests
<1> HIDE DEF r
<1>3. Requests(q \o r, t, SyncSessionCount)
  BY <1>s, <1>1 DEF Requests
<1>4. ASSUME NEW n \in Nat, Requests(q, u, n) PROVE Requests(q \o r, u, n)
  <2>1. PICK s \in 0 .. Len(q) : s + n <= Len(q) /\ \A i \in s + 1 .. s + n : q[i] = u
    BY <1>4 DEF Requests
  <2>2. \A i \in s + 1 .. s + n : i \in 1 .. Len(q)
    BY <1>1, <2>1
  <2>3. \A i \in s + 1 .. s + n : (q \o r)[i] = u
    BY <1>1, <2>1, <2>2
  <2>4. s \in 0 .. Len(q \o r) /\ s + n <= Len(q \o r)
    BY <1>s, <1>1, <2>1
  <2> QED BY <2>3, <2>4 DEF Requests
<1> QED BY <1>1, <1>2, <1>3, <1>4

\* The first of a queue is served: the others wait as before.
LEMMA QueuesShrink ==
  ASSUME NEW q \in Seq(Tasks), Len(q) > 0
  PROVE  /\ Tail(q) \in Seq(Tasks)
         /\ \A u \in Tasks : u # Head(q) /\ Waits(q, u) => Waits(Tail(q), u)
         /\ \A u \in Tasks, n \in Nat \ {0} : Requests(q, u, n) =>
              IF u = Head(q) THEN Requests(Tail(q), u, n - 1) ELSE Requests(Tail(q), u, n)
<1>0. /\ Tail(q) \in Seq(Tasks) /\ Len(Tail(q)) = Len(q) - 1 /\ Head(q) = q[1]
      /\ \A i \in 1 .. Len(q) - 1 : Tail(q)[i] = q[i + 1]
  OBVIOUS
<1>1. PICK r \in Seq(Tasks) :
        /\ r = Tail(q) /\ Len(r) = Len(q) - 1
        /\ \A i \in 1 .. Len(q) - 1 : r[i] = q[i + 1]
        /\ Head(q) = q[1]
  BY <1>0, Zenon
<1>n. Len(q) \in Nat /\ Len(q) > 0
  OBVIOUS
<1>2. ASSUME NEW u \in Tasks, u # Head(q), Waits(q, u) PROVE Waits(r, u)
  <2>1. PICK i \in 1 .. Len(q) : q[i] = u
    BY <1>2 DEF Waits
  <2>2. i - 1 \in 1 .. Len(q) - 1 /\ r[i - 1] = u
    BY <1>1, <1>n, <1>2, <2>1
  <2> QED BY <1>1, <2>2 DEF Waits
<1>3. ASSUME NEW u \in Tasks, NEW n \in Nat, n # 0, Requests(q, u, n)
      PROVE  IF u = Head(q) THEN Requests(r, u, n - 1) ELSE Requests(r, u, n)
  <2>1. PICK s \in 0 .. Len(q) : s + n <= Len(q) /\ \A i \in s + 1 .. s + n : q[i] = u
    BY <1>3 DEF Requests
  <2>2. CASE s = 0
    <3>0. n >= 1 /\ n <= Len(q) /\ \A i \in 1 .. n : q[i] = u
      BY <1>3, <1>n, <2>1, <2>2
    <3>1. u = Head(q)
      BY <1>1, <3>0
    <3>2. \A i \in 0 + 1 .. 0 + (n - 1) : r[i] = u
      BY <1>1, <1>n, <3>0
    <3>3. 0 \in 0 .. Len(r) /\ 0 + (n - 1) <= Len(r)
      BY <1>1, <1>n, <3>0
    <3>4. Requests(r, u, n - 1)
      BY <3>2, <3>3 DEF Requests
    <3> QED BY <3>1, <3>4
  <2>3. CASE s > 0
    <3>1. \A i \in (s - 1) + 1 .. (s - 1) + n : r[i] = u
      BY <1>1, <1>n, <2>1, <2>3
    <3>2. s - 1 \in 0 .. Len(r) /\ (s - 1) + n <= Len(r) /\ (s - 1) + (n - 1) <= Len(r)
      BY <1>1, <1>n, <2>1, <2>3
    <3>3. Requests(r, u, n) /\ Requests(r, u, n - 1)
      <4>1. \A i \in (s - 1) + 1 .. (s - 1) + (n - 1) : r[i] = u
        BY <2>1, <3>1
      <4> QED BY <3>1, <3>2, <4>1 DEF Requests
    <3> QED BY <3>3
  <2> QED BY <1>n, <2>1, <2>2, <2>3
<1> QED BY <1>1, <1>2, <1>3

-----------------------------------------------------------------------------
(* A step of one call *)

\* It waits in a queue, or is served there.
Served(q, q2, t) == q # <<>> /\ Head(q) = t /\ q2 = Tail(q)

\* What becomes of the budget, the kept sessions, the stamps and the queues.
Moves(t) ==
    /\ call' \in [Tasks -> Call] /\ \A u \in Tasks \ {t} : call'[u] = call[u]
    /\ Shape(t)'
    /\ PastSyncLock(t)' => PastSyncLock(t) \/ ~\E u \in Tasks : PastSyncLock(u)
    /\ HasKept(t)' => pool' = NoPool
    /\ \/ pool' \in {pool, NoPool}
       \/ /\ pool' \in CachedSyncSessions /\ PastSyncLock(t)
          /\ pool'.permits = SyncSessionCount /\ pool'.sessions = SyncSessionCount
    /\ \/ pool'.permits + call'[t].permits <= pool.permits + call[t].permits
       \/ /\ PermitsInUse < AccountSessionLimit
          /\ pool' = pool /\ call'[t].permits = call[t].permits + 1
    /\ \/ reapers' = reapers /\ made' = made /\ (call'[t].at = "idle" \/ call[t].at # "idle")
       \/ reapers' = reapers /\ made' = made + 1 /\ made < MaxCalls
       \/ /\ made' = made /\ call[t].at # "idle" /\ call'[t].at = "idle"
          /\ \E s \in Stamps : reapers' = [reapers EXCEPT ![s] = "sleeping"]
    /\ incompatible' \in BOOLEAN /\ credentials' = credentials
    /\ \/ syncQueue' = syncQueue /\ call'[t].at # "sync_lock"
       \/ syncQueue' = Append(syncQueue, t)
       \/ Served(syncQueue, syncQueue', t) /\ call'[t].at # "sync_lock"
    /\ \/ pathQueue' = pathQueue /\ call'[t].at # "path_lock"
       \/ pathQueue' = Append(pathQueue, t)
       \/ Served(pathQueue, pathQueue', t) /\ call'[t].at # "path_lock"
    /\ \/ permitQueue' = permitQueue /\ call'[t].at # "permits"
       \/ permitQueue' = Append(permitQueue, t) /\ (Wanted(t) - call[t].permits = 1)'
       \/ permitQueue' = ThreeRequests(t) /\ (Wanted(t) - call[t].permits = SyncSessionCount)'
       \/ /\ Served(permitQueue, permitQueue', t)
          /\ call'[t].at = "permits" =>
               /\ call[t].at = "permits" /\ call'[t].kind = call[t].kind
               /\ call'[t].permits = call[t].permits + 1

\* The other calls have what they had.
LEMMA OthersStay ==
  ASSUME NEW t \in Tasks, NEW u \in Tasks \ {t}, call'[u] = call[u]
  PROVE  /\ Shape(u)' <=> Shape(u)
         /\ PastSyncLock(u)' <=> PastSyncLock(u)
         /\ HasKept(u)' <=> HasKept(u)
         /\ Wanted(u)' = Wanted(u)
  BY DEF Shape, PastSyncLock, HasKept, Wanted

LEMMA MovesKeepQueues ==
  ASSUME BudgetInv, NEW t \in Tasks, Moves(t)
  PROVE  /\ syncQueue' \in Seq(Tasks) /\ pathQueue' \in Seq(Tasks) /\ permitQueue' \in Seq(Tasks)
         /\ WaitersAreQueued'
<1>t. /\ syncQueue \in Seq(Tasks) /\ pathQueue \in Seq(Tasks) /\ permitQueue \in Seq(Tasks)
      /\ call \in [Tasks -> Call] /\ WaitersAreQueued /\ \A u \in Tasks : Shape(u)
  BY DEF BudgetInv, TypeOK
<1>s. SyncSessionCount \in Nat
  BY SessionsAssumption
<1>o. \A u \in Tasks \ {t} : call'[u] = call[u] /\ Wanted(u)' = Wanted(u)
  BY OthersStay DEF Moves
<1>q. ASSUME NEW q \in Seq(Tasks), q # <<>> PROVE Len(q) > 0
  BY <1>q
<1>1. /\ syncQueue' \in Seq(Tasks)
      /\ \A u \in Tasks : call'[u].at = "sync_lock" => Waits(syncQueue', u)
  <2>0. \A u \in Tasks : call[u].at = "sync_lock" => Waits(syncQueue, u)
    BY <1>t DEF WaitersAreQueued
  <2>1. CASE syncQueue' = syncQueue /\ call'[t].at # "sync_lock"
    BY <1>t, <1>o, <2>0, <2>1
  <2>2. CASE syncQueue' = Append(syncQueue, t)
    <3>1. /\ Append(syncQueue, t) \in Seq(Tasks) /\ Waits(Append(syncQueue, t), t)
          /\ \A u \in Tasks : Waits(syncQueue, u) => Waits(Append(syncQueue, t), u)
      BY <1>t, QueuesGrow
    <3>2. ASSUME NEW u \in Tasks \ {t}, call'[u].at = "sync_lock"
          PROVE  Waits(Append(syncQueue, t), u)
      BY <1>o, <2>0, <3>1, <3>2
    <3> QED BY <2>2, <3>1, <3>2
  <2>3. CASE Served(syncQueue, syncQueue', t) /\ call'[t].at # "sync_lock"
    BY <1>t, <1>o, <1>q, <2>0, <2>3, QueuesShrink DEF Served
  <2> QED BY <2>1, <2>2, <2>3 DEF Moves
<1>2. /\ pathQueue' \in Seq(Tasks)
      /\ \A u \in Tasks : call'[u].at = "path_lock" => Waits(pathQueue', u)
  <2>0. \A u \in Tasks : call[u].at = "path_lock" => Waits(pathQueue, u)
    BY <1>t DEF WaitersAreQueued
  <2>1. CASE pathQueue' = pathQueue /\ call'[t].at # "path_lock"
    BY <1>t, <1>o, <2>0, <2>1
  <2>2. CASE pathQueue' = Append(pathQueue, t)
    <3>1. /\ Append(pathQueue, t) \in Seq(Tasks) /\ Waits(Append(pathQueue, t), t)
          /\ \A u \in Tasks : Waits(pathQueue, u) => Waits(Append(pathQueue, t), u)
      BY <1>t, QueuesGrow
    <3>2. ASSUME NEW u \in Tasks \ {t}, call'[u].at = "path_lock"
          PROVE  Waits(Append(pathQueue, t), u)
      BY <1>o, <2>0, <3>1, <3>2
    <3> QED BY <2>2, <3>1, <3>2
  <2>3. CASE Served(pathQueue, pathQueue', t) /\ call'[t].at # "path_lock"
    BY <1>t, <1>o, <1>q, <2>0, <2>3, QueuesShrink DEF Served
  <2> QED BY <2>1, <2>2, <2>3 DEF Moves
<1>3. /\ permitQueue' \in Seq(Tasks)
      /\ \A u \in Tasks : call'[u].at = "permits" =>
           Requests(permitQueue', u, Wanted(u)' - call'[u].permits)
  <2>0. \A u \in Tasks : call[u].at = "permits" =>
          /\ Wanted(u) - call[u].permits \in Nat /\ Wanted(u) - call[u].permits # 0
          /\ Requests(permitQueue, u, Wanted(u) - call[u].permits)
    <3>1. \A u \in Tasks : call[u].at = "permits" =>
            Requests(permitQueue, u, Wanted(u) - call[u].permits)
      BY <1>t DEF WaitersAreQueued
    <3>2. ASSUME NEW u \in Tasks, call[u].at = "permits"
          PROVE  Wanted(u) - call[u].permits \in Nat /\ Wanted(u) - call[u].permits # 0
      <4>1. /\ call[u].permits \in Nat /\ call[u].permits < Wanted(u)
            /\ Wanted(u) \in Nat
        BY <1>t, <1>s, <3>2 DEF Shape, Wanted, Call
      <4> QED BY <4>1
    <3> QED BY <3>1, <3>2
  <2>1. CASE permitQueue' = permitQueue /\ call'[t].at # "permits"
    BY <1>t, <1>o, <2>0, <2>1
  <2>2. CASE permitQueue' = Append(permitQueue, t) /\ (Wanted(t) - call[t].permits = 1)'
    <3>1. /\ Append(permitQueue, t) \in Seq(Tasks) /\ Requests(Append(permitQueue, t), t, 1)
          /\ \A u \in Tasks, n \in Nat :
                Requests(permitQueue, u, n) => Requests(Append(permitQueue, t), u, n)
      BY <1>t, QueuesGrow
    <3>2. ASSUME NEW u \in Tasks \ {t}, call'[u].at = "permits"
          PROVE  Requests(Append(permitQueue, t), u, Wanted(u)' - call'[u].permits)
      BY <1>o, <2>0, <3>1, <3>2
    <3>3. Requests(Append(permitQueue, t), t, Wanted(t)' - call'[t].permits)
      BY <2>2, <3>1
    <3> QED BY <2>2, <3>1, <3>2, <3>3
  <2>3. CASE permitQueue' = ThreeRequests(t) /\ (Wanted(t) - call[t].permits = SyncSessionCount)'
    BY <1>t, <1>o, <2>0, <2>3, RequestsGrow
  <2>4. CASE /\ Served(permitQueue, permitQueue', t)
             /\ call'[t].at = "permits" =>
                  /\ call[t].at = "permits" /\ call'[t].kind = call[t].kind
                  /\ call'[t].permits = call[t].permits + 1
    <3>1. /\ permitQueue' \in Seq(Tasks)
          /\ \A u \in Tasks : u # t /\ call'[u].at = "permits" =>
               Requests(permitQueue', u, Wanted(u)' - call'[u].permits)
      BY <1>t, <1>o, <1>q, <2>0, <2>4, QueuesShrink DEF Served
    <3>2. ASSUME call'[t].at = "permits"
          PROVE  Requests(permitQueue', t, Wanted(t)' - call'[t].permits)
      <4>1. /\ call[t].at = "permits" /\ Wanted(t)' = Wanted(t)
            /\ call'[t].permits = call[t].permits + 1
        BY <2>4, <3>2 DEF Wanted
      <4>2. Requests(permitQueue', t, (Wanted(t) - call[t].permits) - 1)
        BY <1>t, <1>q, <2>0, <2>4, <4>1, QueuesShrink DEF Served
      <4>3. /\ Wanted(t) \in Int /\ call[t].permits \in Int
        BY <1>t, <1>s DEF Wanted, Call
      <4>4. (Wanted(t) - call[t].permits) - 1 = Wanted(t)' - call'[t].permits
        BY <4>1, <4>3
      <4> QED BY <4>2, <4>4
    <3> QED BY <3>1, <3>2
  <2> QED BY <2>1, <2>2, <2>3, <2>4 DEF Moves
<1> QED BY <1>1, <1>2, <1>3 DEF WaitersAreQueued

LEMMA StampsAreFinite ==
  /\ IsFiniteSet(Stamps) /\ Cardinality(Stamps) = MaxCalls
  /\ IsFiniteSet(Calling) /\ Cardinality(Calling) \in Nat
  /\ IsFiniteSet(Born) /\ Cardinality(Born) \in Nat
<1>1. IsFiniteSet(Stamps) /\ Cardinality(Stamps) = MaxCalls
  <2>1. IsFiniteSet(1 .. MaxCalls) /\ Cardinality(1 .. MaxCalls) = MaxCalls
    BY SessionsAssumption, FS_Interval
  <2> QED BY <2>1 DEF Stamps
<1>2. IsFiniteSet(Calling) /\ IsFiniteSet(Born)
  <2>1. Calling \subseteq Tasks /\ Born \subseteq Stamps
    BY DEF Calling, Born
  <2> QED BY <1>1, <2>1, SessionsAssumption, FS_Subset
<1> QED BY <1>1, <1>2, FS_CardinalityType

LEMMA OneMore ==
  ASSUME NEW S, IsFiniteSet(S), NEW x
  PROVE  IsFiniteSet(S \cup {x}) /\ Cardinality(S \cup {x}) <= Cardinality(S) + 1
<1>1. Cardinality(S \cup {x}) = IF x \in S THEN Cardinality(S) ELSE Cardinality(S) + 1
  BY FS_AddElement
<1>2. Cardinality(S) \in Nat
  BY FS_CardinalityType
<1>3. Cardinality(S \cup {x}) <= Cardinality(S) + 1
  BY <1>1, <1>2
<1> QED BY <1>3, FS_AddElement

\* A call that begins may keep its sessions when it returns, one that returns has used its
\* stamp or leaves it.
LEMMA MovesKeepStamps ==
  ASSUME BudgetInv, NEW t \in Tasks, Moves(t)
  PROVE  /\ StampsLast' /\ made' \in 0 .. MaxCalls
         /\ reapers' \in [Stamps -> {"unborn", "sleeping", "due", "done"}]
<1>t. /\ made \in 0 .. MaxCalls /\ reapers \in [Stamps -> {"unborn", "sleeping", "due", "done"}]
      /\ call \in [Tasks -> Call] /\ StampsLast /\ MaxCalls \in Nat
  BY SessionsAssumption DEF BudgetInv, TypeOK
<1>f. /\ IsFiniteSet(Calling) /\ Cardinality(Calling) \in Nat
      /\ IsFiniteSet(Born) /\ Cardinality(Born) \in Nat
      /\ IsFiniteSet(Calling') /\ Cardinality(Calling') \in Nat
      /\ IsFiniteSet(Born') /\ Cardinality(Born') \in Nat
  <2>1. IsFiniteSet(Stamps)
    BY StampsAreFinite
  <2>2. Calling' \subseteq Tasks /\ Born' \subseteq Stamps
    BY DEF Calling, Born
  <2>3. IsFiniteSet(Calling') /\ IsFiniteSet(Born')
    BY <2>1, <2>2, SessionsAssumption, FS_Subset
  <2> QED BY <2>3, StampsAreFinite, FS_CardinalityType
<1>1. Cardinality(Calling') <= Cardinality(Calling) + 1
  <2>1. Calling' \subseteq Calling \cup {t}
    BY DEF Calling, Moves
  <2>2. /\ IsFiniteSet(Calling \cup {t})
        /\ Cardinality(Calling \cup {t}) <= Cardinality(Calling) + 1
    BY <1>f, OneMore
  <2>3. Cardinality(Calling') <= Cardinality(Calling \cup {t})
    BY <2>1, <2>2, FS_Subset
  <2>4. Cardinality(Calling \cup {t}) \in Nat
    BY <2>2, FS_CardinalityType
  <2> QED BY <1>f, <2>2, <2>3, <2>4
<1>2. CASE reapers' = reapers /\ made' = made /\ (call'[t].at = "idle" \/ call[t].at # "idle")
  <2>1. Born' = Born /\ Calling' \subseteq Calling
    BY <1>2 DEF Born, Calling, Moves
  <2>2. Cardinality(Calling') <= Cardinality(Calling)
    BY <1>f, <2>1, FS_Subset
  <2> QED BY <1>t, <1>f, <1>2, <2>1, <2>2 DEF StampsLast
<1>3. CASE reapers' = reapers /\ made' = made + 1 /\ made < MaxCalls
  <2>1. Born' = Born
    BY <1>3 DEF Born
  <2> QED BY <1>t, <1>f, <1>1, <1>3, <2>1 DEF StampsLast
<1>4. CASE /\ made' = made /\ call[t].at # "idle" /\ call'[t].at = "idle"
           /\ \E s \in Stamps : reapers' = [reapers EXCEPT ![s] = "sleeping"]
  <2>1. PICK s \in Stamps : reapers' = [reapers EXCEPT ![s] = "sleeping"]
    BY <1>4
  <2>2. Calling' = Calling \ {t} /\ t \in Calling
    BY <1>4 DEF Calling, Moves
  <2>3. Cardinality(Calling') = Cardinality(Calling) - 1
    BY <1>f, <2>2, FS_RemoveElement
  <2>4. Born' \subseteq Born \cup {s}
    BY <1>t, <2>1 DEF Born
  <2>5. /\ IsFiniteSet(Born \cup {s})
        /\ Cardinality(Born \cup {s}) <= Cardinality(Born) + 1
    BY <1>f, OneMore
  <2>6. Cardinality(Born') <= Cardinality(Born \cup {s}) /\ Cardinality(Born \cup {s}) \in Nat
    BY <2>4, <2>5, FS_Subset, FS_CardinalityType
  <2>7. reapers' \in [Stamps -> {"unborn", "sleeping", "due", "done"}]
    BY <1>t, <2>1
  <2>8. Cardinality(Calling') + Cardinality(Born') <= made'
    BY <1>t, <1>f, <1>4, <2>3, <2>5, <2>6 DEF StampsLast
  <2> QED BY <1>t, <1>4, <2>7, <2>8 DEF StampsLast
<1> QED BY <1>2, <1>3, <1>4 DEF Moves

\* Sessions that are kept take their permits with them, and a call that takes them over
\* has them from there.
LEMMA MovesKeepBudget == ASSUME BudgetInv, NEW t \in Tasks, Moves(t) PROVE BudgetInv'
<1>t. /\ call \in [Tasks -> Call] /\ call' \in [Tasks -> Call]
      /\ pool \in CachedSyncSessions \cup {NoPool}
      /\ SyncsAreAlone /\ PoolIsWhole /\ PoolIsTaken /\ PermitsInUse <= AccountSessionLimit
      /\ credentials \in Credentials
  BY DEF BudgetInv, TypeOK, Moves
<1>s. SyncSessionCount \in Nat /\ AccountSessionLimit \in Nat
  BY SessionsAssumption
<1>o. \A u \in Tasks \ {t} : /\ call'[u] = call[u] /\ Shape(u)' /\ HasKept(u)' = HasKept(u)
                             /\ PastSyncLock(u)' <=> PastSyncLock(u)
  BY OthersStay DEF Moves, BudgetInv, HasKept
<1>1. pool' \in CachedSyncSessions \cup {NoPool} /\ PoolIsWhole'
  BY <1>t DEF Moves, PoolIsWhole
<1>2. TypeOK'
  <2>1. /\ incompatible' \in BOOLEAN /\ credentials' \in Credentials
    BY <1>t DEF Moves
  <2> QED BY <1>t, <1>1, <2>1, MovesKeepQueues, MovesKeepStamps DEF TypeOK
<1>3. \A u \in Tasks : Shape(u)'
  BY <1>o DEF Moves
<1>4. SyncsAreAlone'
  BY <1>t, <1>o DEF SyncsAreAlone, Moves
<1>5. PoolIsTaken'
  <2> SUFFICES ASSUME NEW u \in Tasks, HasKept(u)' PROVE pool' = NoPool
    BY DEF PoolIsTaken
  <2>1. CASE u = t
    BY <2>1 DEF Moves
  <2>2. CASE u # t
    <3>1. HasKept(u) /\ pool = NoPool
      BY <1>t, <1>o, <2>2 DEF PoolIsTaken
    <3>2. PastSyncLock(u)
      BY <3>1 DEF HasKept, PastSyncLock
    <3>3. ~PastSyncLock(t)
      BY <1>t, <2>2, <3>2 DEF SyncsAreAlone
    <3> QED BY <3>1, <3>3 DEF Moves
  <2> QED BY <2>1, <2>2
<1>6. PermitsInUse' <= AccountSessionLimit
  <2> DEFINE held == Cardinality(PermitsHeld)
             held2 == Cardinality(PermitsHeld')
  <2>1. held2 = held - call[t].permits + call'[t].permits
    BY <1>t, PermitsChange DEF Moves
  <2>2. held \in Nat
    BY PermitsAreFinite
  <2>3. /\ call[t].permits \in Nat /\ call'[t].permits \in Nat
        /\ pool.permits \in Nat /\ pool'.permits \in Nat
    <3>1. \A c \in Call : c.permits \in Nat
      BY <1>s DEF Call
    <3>2. \A p \in CachedSyncSessions \cup {NoPool} : p.permits \in Nat
      BY <1>s DEF CachedSyncSessions, NoPool
    <3> QED BY <1>t, <1>1, <3>1, <3>2
  <2>4. pool.permits + held <= AccountSessionLimit
    BY <1>t DEF PermitsInUse
  <2> HIDE DEF held, held2
  <2>5. CASE pool'.permits + call'[t].permits <= pool.permits + call[t].permits
    <3>1. pool'.permits + held2 <= AccountSessionLimit
      BY <1>s, <2>1, <2>2, <2>3, <2>4, <2>5
    <3> QED BY <3>1 DEF PermitsInUse, held2
  <2>6. CASE /\ PermitsInUse < AccountSessionLimit
             /\ pool' = pool /\ call'[t].permits = call[t].permits + 1
    <3>1. pool.permits + held < AccountSessionLimit
      BY <2>6 DEF PermitsInUse, held
    <3>2. pool'.permits + held2 <= AccountSessionLimit
      BY <1>s, <2>1, <2>2, <2>3, <2>6, <3>1
    <3> QED BY <3>2 DEF PermitsInUse, held2
  <2> QED BY <2>5, <2>6 DEF Moves
<1> QED BY <1>1, <1>2, <1>3, <1>4, <1>5, <1>6, MovesKeepQueues, MovesKeepStamps DEF BudgetInv

\* What a call needs of the queues and of the stamps when it is its turn.
LEMMA TurnsAreServed ==
  ASSUME BudgetInv, NEW t \in Tasks
  PROVE  /\ call[t].at = "sync_lock" => syncQueue # <<>>
         /\ call[t].at = "path_lock" => pathQueue # <<>>
         /\ call[t].at = "permits" => permitQueue # <<>>
         /\ call[t].at # "idle" => \E s \in Stamps : reapers[s] = "unborn"
<1>t. /\ syncQueue \in Seq(Tasks) /\ pathQueue \in Seq(Tasks) /\ permitQueue \in Seq(Tasks)
      /\ call \in [Tasks -> Call] /\ WaitersAreQueued /\ Shape(t) /\ StampsLast
      /\ made \in 0 .. MaxCalls /\ MaxCalls \in Nat
  BY SessionsAssumption DEF BudgetInv, TypeOK
<1>e. \A q \in Seq(Tasks) : q = <<>> => Len(q) = 0
  OBVIOUS
<1>1. call[t].at = "sync_lock" => syncQueue # <<>>
  BY <1>t, <1>e DEF WaitersAreQueued, Waits
<1>2. call[t].at = "path_lock" => pathQueue # <<>>
  BY <1>t, <1>e DEF WaitersAreQueued, Waits
<1>3. ASSUME call[t].at = "permits" PROVE permitQueue # <<>>
  <2>1. PICK s \in 0 .. Len(permitQueue) :
          s + (Wanted(t) - call[t].permits) <= Len(permitQueue)
    BY <1>t, <1>3 DEF WaitersAreQueued, Requests
  <2>2. /\ Wanted(t) \in Nat /\ call[t].permits \in Nat /\ call[t].permits < Wanted(t)
    BY <1>t, <1>3, SessionsAssumption DEF Shape, Wanted, Call
  <2>3. Len(permitQueue) > 0
    BY <1>t, <2>1, <2>2
  <2> QED BY <1>e, <2>3
<1>4. ASSUME call[t].at # "idle" PROVE \E s \in Stamps : reapers[s] = "unborn"
  <2>1. t \in Calling
    BY <1>4 DEF Calling
  <2>2. Cardinality(Calling) > 0
    BY <2>1, StampsAreFinite, FS_EmptySet
  <2>3. Cardinality(Born) # Cardinality(Stamps)
    BY <1>t, <2>2, StampsAreFinite DEF StampsLast
  <2>4. Born # Stamps
    BY <2>3
  <2> QED BY <2>4 DEF Born
<1> QED BY <1>1, <1>2, <1>3, <1>4

\* A call begins.
LEMMA RequestsMove == ASSUME BudgetInv, NEW t \in Tasks, Request(t) PROVE Moves(t)
<1>t. /\ call \in [Tasks -> Call] /\ credentials \in Credentials /\ Shape(t)
      /\ incompatible \in BOOLEAN /\ pool \in CachedSyncSessions \cup {NoPool}
  BY DEF BudgetInv, TypeOK
<1>s. SyncSessionCount \in Nat /\ MaxCredentials \in Nat
  BY SessionsAssumption
<1>p. pool.permits \in Nat
  <2>1. \A p \in CachedSyncSessions \cup {NoPool} : p.permits \in Nat
    BY <1>s DEF CachedSyncSessions, NoPool
  <2> QED BY <1>t, <2>1
<1>b. ASSUME NEW kind \in Kind, NEW place \in {"sync_lock", "path_lock"}, Begin(t, kind, place)
      PROVE  /\ call' \in [Tasks -> Call] /\ \A u \in Tasks \ {t} : call'[u] = call[u]
             /\ call[t].at = "idle" /\ call[t].permits = 0
             /\ call'[t].kind = kind /\ call'[t].at = place
             /\ call'[t].permits = 0 /\ call'[t].sessions = 0
             /\ UNCHANGED <<permitQueue, pool, reapers, incompatible, credentials>>
             /\ made' = made + 1 /\ made < MaxCalls
  <2> DEFINE n == [NoCall EXCEPT !.kind = kind, !.at = place, !.account = credentials]
  <2>1. /\ n \in Call /\ n.kind = kind /\ n.at = place /\ n.permits = 0 /\ n.sessions = 0
    <3>1. NoCall \in Call /\ NoCall.permits = 0 /\ NoCall.sessions = 0
      BY <1>s DEF NoCall, Call, Kind, Place, Credentials
    <3>2. place \in Place
      BY DEF Place
    <3> QED BY <1>t, <3>1, <3>2 DEF Call
  <2>2. call' = [call EXCEPT ![t] = n]
    BY <1>b DEF Begin
  <2>3. call[t].at = "idle" /\ call[t].permits = 0
    BY <1>t, <1>b DEF Begin, Shape
  <2> HIDE DEF n
  <2> QED BY <1>t, <1>b, <2>1, <2>2, <2>3 DEF Begin
<1>1. CASE Synchronize(t)
  <2>1. /\ Begin(t, "synchronize", "sync_lock")
        /\ syncQueue' = Append(syncQueue, t) /\ pathQueue' = pathQueue
    BY <1>1 DEF Synchronize
  <2>2. "synchronize" \in Kind
    BY DEF Kind
  <2> QED BY <1>t, <1>b, <1>p, <2>1, <2>2 DEF Moves, Shape, PastSyncLock, HasKept, Wanted
<1>2. ASSUME NEW kind \in Kind \ {"synchronize"}, QueueForPaths(t, kind) PROVE Moves(t)
  <2>1. /\ Begin(t, kind, "path_lock")
        /\ pathQueue' = Append(pathQueue, t) /\ syncQueue' = syncQueue
    BY <1>2 DEF QueueForPaths
  <2> QED BY <1>t, <1>b, <1>p, <2>1 DEF Moves, Shape, PastSyncLock, HasKept, Wanted
<1> QED BY <1>1, <1>2
        DEF Request, SynchronizeMailbox, FetchMessageBody, FetchMessage,
            ApplyMailboxOperation, Kind

\* A call goes on, to its return.
LEMMA CallsMove == ASSUME BudgetInv, NEW t \in Tasks, Proceed(t) PROVE Moves(t)
<1> DEFINE c == call[t]
           d == call'[t]
<1>t. /\ call \in [Tasks -> Call] /\ credentials \in Credentials /\ Shape(t) /\ c \in Call
      /\ incompatible \in BOOLEAN /\ pool \in CachedSyncSessions \cup {NoPool}
      /\ PoolIsWhole /\ PoolIsTaken
  BY DEF BudgetInv, TypeOK
<1>s. SyncSessionCount \in Nat /\ SyncSessionCount # 0
  BY SessionsAssumption
<1>p. pool.permits \in Nat /\ c.permits \in Nat /\ c.sessions \in Nat
  <2>1. \A p \in CachedSyncSessions \cup {NoPool} : p.permits \in Nat
    BY <1>s DEF CachedSyncSessions, NoPool
  <2> QED BY <1>s, <1>t, <2>1 DEF Call
<1>q. /\ c.at = "sync_lock" => syncQueue # <<>>
      /\ c.at = "path_lock" => pathQueue # <<>>
      /\ c.at = "permits" => permitQueue # <<>>
  BY TurnsAreServed
<1>n. ASSUME call' = [call EXCEPT ![t] = NoCall]
      PROVE  /\ call' \in [Tasks -> Call] /\ \A u \in Tasks \ {t} : call'[u] = call[u]
             /\ d.at = "idle" /\ d.permits = 0 /\ d.sessions = 0
  <2>1. NoCall \in Call /\ NoCall.at = "idle" /\ NoCall.permits = 0 /\ NoCall.sessions = 0
    BY <1>s, SessionsAssumption DEF NoCall, Call, Kind, Place, Credentials
  <2> QED BY <1>t, <1>n, <2>1
<1>1. CASE LockSync(t)
  <2>1. /\ call' \in [Tasks -> Call] /\ \A u \in Tasks \ {t} : call'[u] = call[u]
        /\ d.at = "path_lock" /\ d.kind = c.kind
        /\ d.permits = c.permits /\ d.sessions = c.sessions
    BY <1>t, <1>1 DEF LockSync, Call, Place
  <2>2. c.at = "sync_lock" /\ ~\E u \in Tasks : PastSyncLock(u)
    BY <1>1 DEF LockSync
  <2> QED BY <1>1, <1>t, <1>p, <1>q, <2>1, <2>2
          DEF LockSync, Moves, Shape, HasKept, Served, Wanted
<1>2. CASE LockPaths(t)
  <2>0. Selective \in BOOLEAN
    BY Zenon DEF Selective
  <2>1. /\ call' \in [Tasks -> Call] /\ \A u \in Tasks \ {t} : call'[u] = call[u]
        /\ d.at = IF c.kind = "synchronize" THEN "checkout" ELSE "permits"
        /\ d.kind = c.kind /\ d.permits = c.permits /\ d.sessions = c.sessions
    BY <1>t, <1>2, <2>0 DEF LockPaths, Call, Place
  <2>2. c.at = "path_lock" /\ c.permits = 0 /\ c.sessions = 0
    BY <1>t, <1>2 DEF LockPaths, Shape
  <2>3. PastSyncLock(t)' => PastSyncLock(t)
    BY <2>1, <2>2 DEF PastSyncLock
  <2>4. Shape(t)' /\ ~HasKept(t)'
    BY <2>1, <2>2 DEF Shape, HasKept, Wanted
  <2> QED BY <1>2, <1>t, <1>p, <1>q, <2>1, <2>2, <2>3, <2>4
          DEF LockPaths, Moves, Served, Wanted
<1>3. CASE CheckoutSyncSessions(t)
  <2>1. /\ c.at = "checkout" /\ c.kind = "synchronize" /\ c.permits = 0 /\ c.sessions = 0
        /\ pool' = NoPool /\ NoPool.permits = 0
        /\ UNCHANGED <<syncQueue, pathQueue, reapers, incompatible, credentials, made>>
    BY <1>t, <1>3 DEF CheckoutSyncSessions, Shape, NoPool
  <2>2. CASE IsReusable(t)
    <3>1. /\ pool \in CachedSyncSessions /\ pool.permits = SyncSessionCount
          /\ pool.sessions = SyncSessionCount
      BY <1>t, <2>2 DEF IsReusable
    <3>2. /\ call' \in [Tasks -> Call] /\ \A u \in Tasks \ {t} : call'[u] = call[u]
          /\ d.at = "noop" /\ d.kind = c.kind
          /\ d.permits = SyncSessionCount /\ d.sessions = SyncSessionCount
          /\ permitQueue' = permitQueue
      <4>1. /\ call' = [call EXCEPT ![t].at = "noop", ![t].permits = pool.permits,
                            ![t].sessions = pool.sessions, ![t].with = pool.fingerprint]
            /\ permitQueue' = permitQueue
        BY <1>3, <2>2 DEF CheckoutSyncSessions
      <4>2. pool.fingerprint \in Credentials /\ SyncSessionCount \in 0 .. SyncSessionCount
        BY <1>s, <3>1 DEF CachedSyncSessions
      <4> QED BY <1>t, <3>1, <4>1, <4>2 DEF Call, Place
    <3> QED BY <1>p, <1>t, <2>1, <3>1, <3>2 DEF Moves, Shape, PastSyncLock, Wanted
  <2>3. CASE ~IsReusable(t)
    <3>1. /\ call' \in [Tasks -> Call] /\ \A u \in Tasks \ {t} : call'[u] = call[u]
          /\ d.at = "permits" /\ d.kind = c.kind
          /\ d.permits = c.permits /\ d.sessions = c.sessions
          /\ permitQueue' = ThreeRequests(t)
      BY <1>t, <1>3, <2>3 DEF CheckoutSyncSessions, Call, Place
    <3> QED BY <1>p, <1>s, <1>t, <2>1, <3>1 DEF Moves, Shape, PastSyncLock, Wanted
  <2> QED BY <2>2, <2>3
<1>4. ASSUME NEW healthy \in BOOLEAN, Noop(t, healthy) PROVE Moves(t)
  <2>1. /\ c.at = "noop" /\ c.kind = "synchronize" /\ c.permits = SyncSessionCount
        /\ c.sessions = SyncSessionCount /\ pool' = NoPool /\ pool = NoPool
        /\ UNCHANGED <<syncQueue, pathQueue, reapers, incompatible, credentials, made>>
    BY <1>t, <1>4 DEF Noop, Shape, Wanted, PoolIsTaken, HasKept
  <2>2. CASE healthy
    <3>1. /\ call' \in [Tasks -> Call] /\ \A u \in Tasks \ {t} : call'[u] = call[u]
          /\ d.at = "work" /\ d.kind = c.kind
          /\ d.permits = c.permits /\ d.sessions = c.sessions
          /\ permitQueue' = permitQueue
      BY <1>t, <1>4, <2>2 DEF Noop, Call, Place
    <3> QED BY <1>p, <1>t, <2>1, <3>1 DEF Moves, Shape, PastSyncLock, Wanted
  <2>3. CASE ~healthy
    <3>1. /\ call' \in [Tasks -> Call] /\ \A u \in Tasks \ {t} : call'[u] = call[u]
          /\ d.at = "permits" /\ d.kind = c.kind
          /\ d.permits = 0 /\ d.sessions = 0
          /\ permitQueue' = ThreeRequests(t)
      BY <1>t, <1>s, <1>4, <2>3 DEF Noop, DropSessions, Call, Place
    <3> QED BY <1>p, <1>s, <1>t, <2>1, <3>1 DEF Moves, Shape, PastSyncLock, Wanted
  <2> QED BY <2>2, <2>3
<1>5. CASE Acquire(t)
  <2>1. /\ c.at = "permits" /\ c.permits < Wanted(t) /\ c.sessions = 0
        /\ Wanted(t) \in 1 .. SyncSessionCount /\ PermitsInUse < AccountSessionLimit
        /\ Served(permitQueue, permitQueue', t)
        /\ UNCHANGED <<syncQueue, pathQueue, pool, reapers, incompatible, credentials, made>>
    BY <1>t, <1>s, <1>q, <1>5 DEF Acquire, Shape, Wanted, Served
  <2>2. c.permits + 1 \in 0 .. SyncSessionCount
    BY <1>p, <1>s, <2>1
  <2>3. /\ call' \in [Tasks -> Call] /\ \A u \in Tasks \ {t} : call'[u] = call[u]
        /\ d.at = IF c.permits + 1 = Wanted(t) THEN "connect" ELSE "permits"
        /\ d.kind = c.kind /\ d.permits = c.permits + 1 /\ d.sessions = 0
    <3>1. PICK place \in {"permits", "connect"} :
            /\ place = IF c.permits + 1 = Wanted(t) THEN "connect" ELSE "permits"
            /\ call' = [call EXCEPT ![t].permits = @ + 1, ![t].at = place]
      BY <1>5, <2>1 DEF Acquire
    <3>2. PICK more \in 0 .. SyncSessionCount : more = c.permits + 1
      BY <2>2
    <3>3. call' = [call EXCEPT ![t] = [c EXCEPT !.permits = more, !.at = place]]
      BY <1>t, <3>1, <3>2
    <3> QED BY <1>t, <2>1, <3>1, <3>2, <3>3 DEF Call, Place
  <2>4. Wanted(t)' = Wanted(t)
    BY <2>3 DEF Wanted
  <2>5. Shape(t)'
    <3>1. CASE c.permits + 1 = Wanted(t)
      BY <1>p, <2>1, <2>3, <2>4, <3>1 DEF Shape
    <3>2. CASE c.permits + 1 # Wanted(t)
      <4>1. c.permits + 1 < Wanted(t)
        BY <1>p, <2>1, <3>2
      <4> QED BY <2>1, <2>3, <2>4, <3>2, <4>1 DEF Shape
    <3> QED BY <3>1, <3>2
  <2>6. (PastSyncLock(t)' => PastSyncLock(t)) /\ (HasKept(t)' => pool' = NoPool)
    BY <1>t, <2>1, <2>3 DEF PastSyncLock, HasKept, PoolIsTaken
  <2> QED BY <1>p, <1>t, <2>1, <2>3, <2>4, <2>5, <2>6 DEF Moves
<1>6. CASE ConnectSession(t)
  <2>1. /\ c.at = "connect" /\ c.permits = Wanted(t) /\ c.sessions < Wanted(t)
        /\ Wanted(t) \in 1 .. SyncSessionCount
        /\ UNCHANGED <<syncQueue, pathQueue, permitQueue, pool, reapers, incompatible,
                       credentials, made>>
    BY <1>t, <1>s, <1>6 DEF ConnectSession, Shape, Wanted
  <2>2. c.sessions + 1 \in 0 .. SyncSessionCount
    BY <1>p, <1>s, <2>1
  <2>3. /\ call' \in [Tasks -> Call] /\ \A u \in Tasks \ {t} : call'[u] = call[u]
        /\ d.at = IF c.sessions + 1 = Wanted(t) THEN "work" ELSE "connect"
        /\ d.kind = c.kind /\ d.permits = c.permits /\ d.sessions = c.sessions + 1
    <3>1. PICK place \in {"work", "connect"} :
            /\ place = IF c.sessions + 1 = Wanted(t) THEN "work" ELSE "connect"
            /\ call' = [call EXCEPT ![t].sessions = @ + 1, ![t].with = c.account,
                                    ![t].at = place]
      BY <1>6, <2>1 DEF ConnectSession
    <3>2. PICK more \in 0 .. SyncSessionCount : more = c.sessions + 1
      BY <2>2
    <3>3. call' = [call EXCEPT ![t] = [c EXCEPT !.sessions = more, !.with = c.account,
                                                !.at = place]]
      BY <1>t, <3>1, <3>2
    <3> QED BY <1>t, <2>1, <3>1, <3>2, <3>3 DEF Call, Place
  <2>4. Wanted(t)' = Wanted(t)
    BY <2>3 DEF Wanted
  <2>5. Shape(t)'
    <3>1. CASE c.sessions + 1 = Wanted(t)
      BY <1>p, <2>1, <2>3, <2>4, <3>1 DEF Shape
    <3>2. CASE c.sessions + 1 # Wanted(t)
      <4>1. c.sessions + 1 < Wanted(t)
        BY <1>p, <2>1, <3>2
      <4> QED BY <2>1, <2>3, <2>4, <3>2, <4>1 DEF Shape
    <3> QED BY <3>1, <3>2
  <2>6. (PastSyncLock(t)' => PastSyncLock(t)) /\ (HasKept(t)' => pool' = NoPool)
    BY <1>t, <2>1, <2>3 DEF PastSyncLock, HasKept, PoolIsTaken
  <2> QED BY <1>p, <1>t, <2>1, <2>3, <2>4, <2>5, <2>6 DEF Moves
<1>7. CASE Fail(t) \/ Finish(t) \/ SelectiveFetchUnsupported(t)
  <2>1. /\ call' = [call EXCEPT ![t] = NoCall] /\ incompatible' \in BOOLEAN
        /\ UNCHANGED <<syncQueue, pathQueue, permitQueue, pool, reapers, credentials, made>>
    BY <1>t, <1>7 DEF Fail, Finish, SelectiveFetchUnsupported, Return
  <2> QED BY <1>n, <1>p, <1>t, <2>1 DEF Moves, Shape, PastSyncLock, HasKept
<1>8. CASE StoreSyncSessions(t)
  <2>1. PICK stamp \in Stamps :
          /\ pool' = [stamp |-> stamp, fingerprint |-> c.account,
                      permits |-> c.permits, sessions |-> c.sessions]
          /\ reapers' = [reapers EXCEPT ![stamp] = "sleeping"]
    <3>1. c.at # "idle"
      BY <1>8 DEF StoreSyncSessions
    <3>2. \E s \in Stamps : reapers[s] = "unborn"
      BY <3>1, TurnsAreServed
    <3>3. (CHOOSE s \in Stamps : reapers[s] = "unborn") \in Stamps
      BY <3>2
    <3> QED BY <1>8, <3>3, Zenon DEF StoreSyncSessions, AccountFingerprint
  <2>2. /\ c.at = "work" /\ c.kind = "synchronize" /\ call' = [call EXCEPT ![t] = NoCall]
        /\ UNCHANGED <<syncQueue, pathQueue, permitQueue, incompatible, credentials, made>>
    BY <1>8 DEF StoreSyncSessions, Return
  <2>3. c.permits = SyncSessionCount /\ c.sessions = SyncSessionCount
    BY <1>t, <2>2 DEF Shape, Wanted
  <2>4. /\ pool' \in CachedSyncSessions /\ pool'.permits = SyncSessionCount
        /\ pool'.sessions = SyncSessionCount
    BY <1>t, <2>1, <2>3 DEF CachedSyncSessions, Call
  <2>5. PastSyncLock(t)
    BY <2>2 DEF PastSyncLock
  <2>6. pool'.permits + d.permits <= pool.permits + c.permits
    BY <1>n, <1>p, <1>s, <2>2, <2>3, <2>4
  <2>7. Shape(t)' /\ ~PastSyncLock(t)' /\ ~HasKept(t)'
    BY <1>n, <2>2 DEF Shape, PastSyncLock, HasKept
  <2> QED BY <1>n, <1>t, <2>1, <2>2, <2>4, <2>5, <2>6, <2>7 DEF Moves
<1>9. CASE Incompatible(t)
  <2>1. /\ c.at = "work" /\ incompatible' = TRUE
        /\ UNCHANGED <<syncQueue, pathQueue, pool, reapers, credentials, made>>
    BY <1>9 DEF Incompatible
  <2>d. ASSUME NEW place \in {"checkout", "permits"}, DropSessions(t, place, FALSE)
        PROVE  /\ call' \in [Tasks -> Call] /\ \A u \in Tasks \ {t} : call'[u] = call[u]
               /\ d.at = place /\ d.kind = c.kind /\ d.permits = 0 /\ d.sessions = 0
    <3>1. call' = [call EXCEPT ![t] = [c EXCEPT !.at = place, !.selective = FALSE,
                                                !.permits = 0, !.sessions = 0]]
      BY <1>t, <2>d DEF DropSessions
    <3>2. place \in Place /\ 0 \in 0 .. SyncSessionCount
      BY <1>s DEF Place
    <3> QED BY <1>t, <3>1, <3>2 DEF Call
  <2>2. CASE c.kind = "synchronize"
    <3>1. DropSessions(t, "checkout", FALSE) /\ permitQueue' = permitQueue
      BY <1>9, <2>2 DEF Incompatible
    <3> QED BY <1>p, <1>t, <2>1, <2>2, <2>d, <3>1 DEF Moves, Shape, PastSyncLock, HasKept
  <2>3. CASE c.kind = "synchronize_mailbox"
    <3>1. DropSessions(t, "permits", FALSE) /\ permitQueue' = Append(permitQueue, t)
      BY <1>9, <2>3 DEF Incompatible
    <3> QED BY <1>p, <1>t, <2>1, <2>3, <2>d, <3>1
            DEF Moves, Shape, PastSyncLock, HasKept, Wanted
  <2> QED BY <1>9, <2>2, <2>3 DEF Incompatible
<1> QED BY <1>1, <1>2, <1>3, <1>4, <1>5, <1>6, <1>7, <1>8, <1>9 DEF Proceed

\* Sessions are closed, and the settings change, beside the calls.
LEMMA OthersKeepBudget ==
  ASSUME BudgetInv, (\E s \in Stamps : Reap(s)) \/ ChangeCredentials \/ UNCHANGED vars
  PROVE  BudgetInv'
<1>t. /\ call \in [Tasks -> Call] /\ credentials \in Credentials
      /\ pool \in CachedSyncSessions \cup {NoPool}
      /\ reapers \in [Stamps -> {"unborn", "sleeping", "due", "done"}]
      /\ made \in 0 .. MaxCalls
  BY DEF BudgetInv, TypeOK
<1>s. SyncSessionCount \in Nat /\ AccountSessionLimit \in Nat /\ MaxCredentials \in Nat
  BY SessionsAssumption
<1>1. UNCHANGED <<call, syncQueue, pathQueue, permitQueue, incompatible, made>>
  BY DEF Reap, IdleTtlElapses, CloseIdleSessions, ChangeCredentials, vars
<1>2. pool' \in {pool, NoPool} /\ credentials' \in Credentials
  <2>1. CASE ChangeCredentials
    BY <1>t, <1>s, <2>1 DEF ChangeCredentials, Credentials
  <2>2. CASE UNCHANGED <<credentials, pool>>
    BY <1>t, <2>2
  <2>3. CASE \E s \in Stamps : CloseIdleSessions(s)
    BY <1>t, <2>3 DEF CloseIdleSessions
  <2> QED BY <2>1, <2>2, <2>3 DEF Reap, IdleTtlElapses, vars
<1>3. /\ reapers' \in [Stamps -> {"unborn", "sleeping", "due", "done"}]
      /\ \A s \in Stamps : reapers'[s] # "unborn" <=> reapers[s] # "unborn"
  <2>1. CASE reapers' = reapers
    BY <1>t, <2>1
  <2>2. ASSUME NEW s \in Stamps, Reap(s)
        PROVE  /\ reapers' \in [Stamps -> {"unborn", "sleeping", "due", "done"}]
               /\ \A r \in Stamps : reapers'[r] # "unborn" <=> reapers[r] # "unborn"
    BY <1>t, <2>2 DEF Reap, IdleTtlElapses, CloseIdleSessions
  <2> QED BY <2>1, <2>2 DEF ChangeCredentials, vars
<1>4. TypeOK'
  BY <1>1, <1>2, <1>3 DEF BudgetInv, TypeOK
<1>5. /\ \A t \in Tasks : Shape(t)'
      /\ SyncsAreAlone' /\ PoolIsWhole' /\ PoolIsTaken' /\ WaitersAreQueued'
  <2>1. \A t \in Tasks : Shape(t)'
    BY <1>1 DEF BudgetInv, Shape, Wanted
  <2>2. SyncsAreAlone'
    BY <1>1 DEF BudgetInv, SyncsAreAlone, PastSyncLock
  <2>3. PoolIsWhole' /\ PoolIsTaken'
    BY <1>1, <1>2 DEF BudgetInv, PoolIsWhole, PoolIsTaken, HasKept
  <2>4. WaitersAreQueued'
    BY <1>1 DEF BudgetInv, WaitersAreQueued, Waits, Requests, Wanted
  <2> QED BY <2>1, <2>2, <2>3, <2>4
<1>6. StampsLast'
  <2>1. Born' = Born /\ Calling' = Calling
    BY <1>1, <1>3 DEF Born, Calling
  <2> QED BY <1>1, <2>1 DEF BudgetInv, StampsLast
<1>7. PermitsInUse' <= AccountSessionLimit
  <2>1. PermitsHeld' = PermitsHeld
    BY <1>1 DEF PermitsHeld
  <2>2. pool'.permits \in Nat /\ pool.permits \in Nat /\ pool'.permits <= pool.permits
    <3>1. \A p \in CachedSyncSessions \cup {NoPool} : p.permits \in Nat
      BY <1>s DEF CachedSyncSessions, NoPool
    <3>2. NoPool.permits = 0
      BY DEF NoPool
    <3> QED BY <1>t, <1>2, <3>1, <3>2
  <2>3. Cardinality(PermitsHeld) \in Nat /\ pool.permits + Cardinality(PermitsHeld) <= AccountSessionLimit
    BY PermitsAreFinite DEF BudgetInv, PermitsInUse
  <2>4. pool'.permits + Cardinality(PermitsHeld) <= AccountSessionLimit
    BY <1>s, <2>2, <2>3
  <2> QED BY <2>1, <2>4 DEF PermitsInUse
<1> QED BY <1>4, <1>5, <1>6, <1>7 DEF BudgetInv

LEMMA BudgetInit == Init => BudgetInv
<1> SUFFICES ASSUME Init PROVE BudgetInv
  OBVIOUS
<1>s. /\ SyncSessionCount \in Nat /\ AccountSessionLimit \in Nat /\ MaxCredentials \in Nat
      /\ MaxCalls \in Nat
  BY SessionsAssumption
<1>1. /\ call = [t \in Tasks |-> NoCall] /\ pool = NoPool
      /\ syncQueue = <<>> /\ pathQueue = <<>> /\ permitQueue = <<>>
      /\ reapers = [s \in Stamps |-> "unborn"] /\ made = 0
      /\ incompatible = FALSE /\ credentials = 0
  BY DEF Init
<1>2. /\ NoCall \in Call /\ NoCall.at = "idle" /\ NoCall.permits = 0 /\ NoCall.sessions = 0
      /\ NoPool.permits = 0
  BY <1>s DEF NoCall, Call, Kind, Place, Credentials, NoPool
<1>3. TypeOK
  <2>1. /\ syncQueue \in Seq(Tasks) /\ pathQueue \in Seq(Tasks) /\ permitQueue \in Seq(Tasks)
    BY <1>1
  <2>2. call \in [Tasks -> Call] /\ pool \in CachedSyncSessions \cup {NoPool}
    BY <1>1, <1>2
  <2>3. reapers \in [Stamps -> {"unborn", "sleeping", "due", "done"}]
    BY <1>1
  <2>4. incompatible \in BOOLEAN
    BY <1>1
  <2>5. credentials \in Credentials /\ made \in 0 .. MaxCalls
    BY <1>s, <1>1 DEF Credentials
  <2> QED BY <2>1, <2>2, <2>3, <2>4, <2>5 DEF TypeOK
<1>4. /\ \A t \in Tasks : Shape(t)
      /\ SyncsAreAlone /\ PoolIsWhole /\ PoolIsTaken /\ WaitersAreQueued
  BY <1>1, <1>2 DEF Shape, SyncsAreAlone, PastSyncLock, PoolIsWhole, PoolIsTaken, HasKept,
                    WaitersAreQueued
<1>5. StampsLast
  <2>1. Calling = {} /\ Born = {}
    BY <1>1, <1>2 DEF Calling, Born
  <2> QED BY <1>1, <2>1, FS_EmptySet DEF StampsLast
<1>6. PermitsInUse <= AccountSessionLimit
  <2>1. PermitsHeld = {}
    BY <1>1, <1>2, <1>s DEF PermitsHeld
  <2> QED BY <1>s, <1>1, <1>2, <2>1, FS_EmptySet DEF PermitsInUse
<1> QED BY <1>3, <1>4, <1>5, <1>6 DEF BudgetInv

LEMMA BudgetHolds == Spec => []BudgetInv
<1>1. BudgetInv /\ [Next]_vars => BudgetInv'
  <2> SUFFICES ASSUME BudgetInv, [Next]_vars PROVE BudgetInv'
    OBVIOUS
  <2>1. ASSUME NEW t \in Tasks, Proceed(t) \/ Request(t) PROVE BudgetInv'
    BY <2>1, CallsMove, RequestsMove, MovesKeepBudget
  <2>2. CASE (\E s \in Stamps : Reap(s)) \/ ChangeCredentials \/ UNCHANGED vars
    BY <2>2, OthersKeepBudget
  <2> QED BY <2>1, <2>2 DEF Next
<1> QED BY BudgetInit, <1>1, PTL DEF Spec

-----------------------------------------------------------------------------

\* Every variable keeps its type: a call asks for no more permits than it wants, it is in
\* the queue it waits in, and there is a stamp left for the sessions it keeps.
THEOREM TypeCorrect == Spec => []TypeOK
<1>1. BudgetInv => TypeOK
  BY DEF BudgetInv
<1> QED BY BudgetHolds, <1>1, PTL

\* Permits cover the open sessions, those kept between synchronizations included, and the
\* account's synchronizations never take more than their share of them: a slot remains for
\* interactive calls, whoever queues, fails or takes sessions over.
THEOREM SlotRemains == Spec => []InteractiveSlotRemains
<1>1. BudgetInv => InteractiveSlotRemains
  <2> SUFFICES ASSUME BudgetInv PROVE InteractiveSlotRemains
    OBVIOUS
  <2>t. /\ call \in [Tasks -> Call] /\ pool \in CachedSyncSessions \cup {NoPool}
        /\ \A t \in Tasks : Shape(t)
        /\ SyncsAreAlone /\ PoolIsWhole /\ PoolIsTaken
    BY DEF BudgetInv, TypeOK
  <2>s. SyncSessionCount \in Nat
    BY SessionsAssumption
  <2>p. /\ \A t \in Tasks : call[t].permits \in 0 .. SyncSessionCount /\ call[t].sessions \in Nat
        /\ pool.permits \in 0 .. SyncSessionCount /\ pool.sessions = pool.permits
    <3>1. \A c \in Call : c.permits \in 0 .. SyncSessionCount /\ c.sessions \in Nat
      BY <2>s DEF Call
    <3>2. NoPool.permits = 0 /\ NoPool.sessions = 0
      BY DEF NoPool
    <3>3. \/ pool = NoPool
          \/ pool.permits = SyncSessionCount /\ pool.sessions = SyncSessionCount
      BY <2>t DEF PoolIsWhole
    <3> QED BY <2>t, <2>s, <3>1, <3>2, <3>3
  <2>1. OpenSessions <= PermitsInUse
    <3>1. \A t \in Tasks : call[t].sessions <= call[t].permits
      <4> SUFFICES ASSUME NEW t \in Tasks PROVE call[t].sessions <= call[t].permits
        OBVIOUS
      <4>1. call[t] \in Call /\ Shape(t) /\ Wanted(t) \in Nat
        BY <2>t, <2>s DEF Wanted
      <4> QED BY <2>p, <4>1 DEF Shape, Call, Place
    <3>2. SessionsHeld \subseteq PermitsHeld
      BY <2>p, <2>s, <3>1 DEF SessionsHeld, PermitsHeld
    <3>3. Cardinality(SessionsHeld) <= Cardinality(PermitsHeld)
      BY <3>2, PermitsAreFinite, FS_Subset
    <3> QED BY <2>p, <2>s, <3>3, PermitsAreFinite DEF OpenSessions, PermitsInUse
  <2>2. ASSUME NEW t \in Tasks, call[t].kind = "synchronize", call[t].permits # 0
        PROVE  PastSyncLock(t) /\ pool.permits = 0
    <3>1. call[t].at \in {"noop", "permits", "connect", "work"}
      BY <2>t, <2>2 DEF Shape, Call, Place
    <3>2. PastSyncLock(t) /\ HasKept(t)
      BY <2>2, <3>1 DEF PastSyncLock, HasKept
    <3> QED BY <2>t, <3>2 DEF PoolIsTaken, NoPool
  <2>3. ASSUME NEW t \in Tasks, NEW u \in Tasks,
               call[t].kind = "synchronize", call[u].kind = "synchronize"
        PROVE  /\ call[t].permits + pool.permits <= SyncSessionCount
               /\ t # u => call[t].permits = 0 \/ call[u].permits = 0
    <3>1. CASE call[t].permits = 0
      BY <2>p, <2>s, <3>1
    <3>2. CASE call[t].permits # 0
      BY <2>p, <2>s, <2>t, <2>2, <2>3, <3>2 DEF SyncsAreAlone
    <3> QED BY <3>1, <3>2
  <2> QED BY <2>1, <2>3 DEF BudgetInv, InteractiveSlotRemains
<1> QED BY BudgetHolds, <1>1, PTL

\* Sessions that are kept are closed by the task that was started for them, after their
\* own idle time, or they pass into the hands of a synchronization.
THEOREM YoungPoolsAreSpared == Spec => ReapersSpareYoungPools
<1>1. BudgetInv /\ [Next]_vars =>
        (pool # NoPool /\ pool' = NoPool /\ (\A t \in Tasks : call'[t] = call[t])
         => reapers[pool.stamp] = "due")
  <2> SUFFICES ASSUME BudgetInv, [Next]_vars, pool # NoPool, pool' = NoPool,
                      \A t \in Tasks : call'[t] = call[t]
               PROVE  reapers[pool.stamp] = "due"
    OBVIOUS
  <2>t. call \in [Tasks -> Call]
    BY DEF BudgetInv, TypeOK
  <2>1. ASSUME NEW t \in Tasks, CheckoutSyncSessions(t) PROVE FALSE
    <3>1. call'[t].at \in {"noop", "permits"} /\ call[t].at = "checkout"
      BY <2>t, <2>1 DEF CheckoutSyncSessions, Call
    <3> QED BY <3>1
  <2>2. ASSUME NEW t \in Tasks, StoreSyncSessions(t) PROVE FALSE
    <3>1. call'[t].at = "idle" /\ call[t].at = "work"
      BY <2>t, <2>2 DEF StoreSyncSessions, Return, NoCall
    <3> QED BY <3>1
  <2>3. \E s \in Stamps : CloseIdleSessions(s)
    BY <2>1, <2>2
    DEF Next, Proceed, Request, Reap, vars, LockSync, LockPaths, Noop, Acquire,
        ConnectSession, Fail, Finish, Incompatible, SelectiveFetchUnsupported, Synchronize,
        SynchronizeMailbox, FetchMessageBody, FetchMessage, ApplyMailboxOperation,
        QueueForPaths, Begin, IdleTtlElapses, ChangeCredentials
  <2> QED BY <2>3 DEF CloseIdleSessions
<1> QED BY BudgetHolds, <1>1, PTL DEF Spec, ReapersSpareYoungPools
=============================================================================
