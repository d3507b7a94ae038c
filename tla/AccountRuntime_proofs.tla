----------------------- MODULE AccountRuntime_proofs -----------------------
(***************************************************************************)
(* The supervisors of one account, for every number of generations,        *)
(* versions, commands and events.                                          *)
(***************************************************************************)
EXTENDS AccountRuntime, TLAPS

Supervisors == [Generation -> AccountSupervisor]
Waiting == Seq(Generation \X {"sync", "ops"})

\* A login is in progress with a version that was read.
LoginHasVersion ==
    \A g \in Generation :
        SyncAt(g, "login") => supervisors[g].syncWith \in Version

TypeInv == TypeOK /\ LoginHasVersion

LEMMA NoGenerationIsZero ==
    /\ 0 \notin Generation
    /\ \A g : g \in 0 .. MaxGeneration <=> g = 0 \/ g \in Generation
  BY RuntimeAssumption DEF Generation

LEMMA InitType == Init => TypeInv
<1> SUFFICES ASSUME Init PROVE TypeInv
  OBVIOUS
<1>1. NoSupervisor \in AccountSupervisor
  BY RuntimeAssumption DEF NoSupervisor, AccountSupervisor, SyncPlace, OpsPlace
<1>2. supervisors \in Supervisors /\ LoginHasVersion
  BY <1>1 DEF Init, NoSupervisor, LoginHasVersion, SyncAt, Supervisors
<1>3. 0 \in 0 .. MaxGeneration /\ 0 \in 0 .. MaxVersion /\ 1 \in Version
  BY RuntimeAssumption DEF Version
<1>4. spent \in [commands : 0 .. MaxCommands, events : 0 .. MaxEvents]
  BY RuntimeAssumption DEF Init
<1>5. /\ waiting \in Seq(Generation \X {"sync", "ops"})
      /\ command \in [update : {"idle", "saved"}, add : {"idle", "saved"},
                      remove : {"idle", "begun", "checked", "removed"}]
  BY DEF Init
<1> QED
  BY <1>2, <1>3, <1>4, <1>5 DEF Init, TypeInv, TypeOK, Supervisors, State

(* What the shared steps do *)

\* No login begins: those of "after" were in progress in "before".
NoLogin(before, after) ==
    \A g \in Generation : after[g].sync = "login" =>
        before[g].sync = "login" /\ after[g].syncWith = before[g].syncWith

LEMMA NewSupervisorIsTyped ==
    /\ NewSupervisor \in AccountSupervisor
    /\ NewSupervisor.sync = "spawned" /\ NewSupervisor.ops = "spawned"
    /\ NewSupervisor.pending_operations_requested
    /\ ~NewSupervisor.startup_sync_attempted
<1>1. NoSupervisor \in AccountSupervisor
  BY RuntimeAssumption DEF NoSupervisor, AccountSupervisor, SyncPlace, OpsPlace
<1>2. NewSupervisor \in AccountSupervisor
  BY <1>1 DEF NewSupervisor, AccountSupervisor, SyncPlace, OpsPlace
<1>3. NoSupervisor.startup_sync_attempted = FALSE
  BY DEF NoSupervisor
<1> QED
  BY <1>1, <1>2, <1>3 DEF NewSupervisor, AccountSupervisor

LEMMA WokenIsTyped ==
    ASSUME NEW s \in AccountSupervisor
    PROVE  /\ Woken(s) \in AccountSupervisor
           /\ Woken(s).sync = s.sync /\ Woken(s).syncWith = s.syncWith
  BY DEF Woken, AccountSupervisor

\* stop_account takes the supervisor out of the registry.
LEMMA StopAccountStops ==
    ASSUME NEW from \in Supervisors, NEW to \in State, StopAccount(from, to)
    PROVE  /\ current' = 0 /\ state' = to
           /\ supervisors' \in Supervisors /\ NoLogin(from, supervisors')
           /\ \A g \in Generation : supervisors'[g].sync = from[g].sync
<1>1. \A g \in Generation : supervisors'[g] \in {from[g], Woken(from[g])}
  BY DEF StopAccount
<1>2. \A g \in Generation :
         /\ from[g] \in AccountSupervisor
         /\ supervisors'[g] \in AccountSupervisor
         /\ supervisors'[g].sync = from[g].sync
         /\ supervisors'[g].syncWith = from[g].syncWith
  BY <1>1, WokenIsTyped DEF Supervisors
<1> QED
  BY <1>2 DEF StopAccount, Supervisors, NoLogin

\* The outcomes of ensure_supervisor: nothing, no supervisor, or a new one.
Untouched(stopped, there, on) ==
    /\ ~stopped /\ UNCHANGED <<current, supervisors, state>>
    /\ current # 0 \/ demo \/ ~there \/ ~on
Removed(there, on) == current' = 0 /\ (demo \/ ~there \/ ~on)
Renewed(there, on) ==
    /\ current' \in Generation /\ supervisors'[current'] = NewSupervisor
    /\ state' = "starting" /\ there /\ on /\ ~demo

LEMMA SuperviseOutcomes ==
    ASSUME TypeOK, NEW stopped \in BOOLEAN, NEW there \in BOOLEAN,
           NEW on \in BOOLEAN, Supervise(stopped, there, on)
    PROVE  /\ supervisors' \in Supervisors /\ state' \in State
           /\ NoLogin(supervisors, supervisors')
           /\ \/ Untouched(stopped, there, on) \/ Removed(there, on)
              \/ Renewed(there, on)
<1> DEFINE base == [g \in Generation |->
                       IF stopped /\ g = current THEN Woken(supervisors[g])
                                                 ELSE supervisors[g]]
           left == IF stopped THEN 0 ELSE current
<1>1. \A g \in Generation : /\ base[g] \in AccountSupervisor
                            /\ base[g].sync = supervisors[g].sync
                            /\ base[g].syncWith = supervisors[g].syncWith
  BY WokenIsTyped DEF TypeOK
<1>2. base \in Supervisors /\ NoLogin(supervisors, base)
  BY <1>1 DEF Supervisors, NoLogin
<1>3. ~stopped => base = supervisors
  BY DEF TypeOK
<1> HIDE DEF base
<1>4. NewSupervisor \in AccountSupervisor /\ NewSupervisor.sync = "spawned"
  BY NewSupervisorIsTyped
<1>5. CASE demo \/ left # 0 \/ ~there \/ ~on
  <2>1. /\ current' = left /\ supervisors' = base
        /\ state' = IF stopped THEN "stopped" ELSE state
    BY <1>5 DEF Supervise, base
  <2> QED
    BY <1>2, <1>3, <1>5, <2>1 DEF Untouched, Removed, TypeOK, State
<1>6. CASE ~(demo \/ left # 0 \/ ~there \/ ~on)
  <2>1. PICK next \in Generation :
           /\ current' = next
           /\ supervisors' = [base EXCEPT ![next] = NewSupervisor]
           /\ state' = "starting"
    BY <1>6 DEF Supervise, base
  <2>2. supervisors' \in Supervisors /\ supervisors'[next] = NewSupervisor
    BY <1>2, <1>4, <2>1 DEF Supervisors
  <2>3. NoLogin(supervisors, supervisors')
    BY <1>2, <1>4, <2>1 DEF NoLogin, Supervisors
  <2> QED
    BY <1>6, <2>1, <2>2, <2>3 DEF Renewed, State
<1> QED
  BY <1>5, <1>6

\* The outcomes of an iteration of supervisor_loop: the account is gone, a
\* replaced loop ends, or the loop of the registry goes on to a place.
StopsGone == current' = 0 /\ ~configured
EndsReplaced(g, sups, now) ==
    /\ g # current /\ current' = current /\ state' = now
    /\ \A h \in Generation \ {g} : supervisors'[h] = sups[h]
GoesOn(g, sups, now) ==
    /\ g = current /\ configured /\ current' = current /\ state' = now
    /\ \A h \in Generation \ {g} : supervisors'[h] = sups[h]
    /\ supervisors'[g] = [sups[g] EXCEPT !.sync = supervisors'[g].sync]
    /\ \/ supervisors'[g].sync = "parked" /\ now = "reauth_required"
       \/ supervisors'[g].sync = "queued"
       \/ supervisors'[g].sync = "interval" /\ sups[g].startup_sync_attempted

LEMMA SyncEndsIsTyped ==
    ASSUME NEW sups \in Supervisors, NEW g \in Generation
    PROVE  /\ SyncEnds(sups, g) \in Supervisors
           /\ NoLogin(sups, SyncEnds(sups, g))
           /\ SyncEnds(sups, g)[g].sync = "ended"
           /\ \A h \in Generation \ {g} : SyncEnds(sups, g)[h] = sups[h]
<1>0. 0 \in 0 .. MaxVersion /\ sups[g] \in AccountSupervisor
  BY RuntimeAssumption DEF Supervisors
<1>1. /\ SyncEnds(sups, g)[g].sync = "ended"
      /\ SyncEnds(sups, g)[g] \in AccountSupervisor
  <2>1. SyncEnds(sups, g)[g] = [sups[g] EXCEPT !.sync = "ended",
                                   !.sync_wake = FALSE, !.syncWith = 0]
    BY DEF SyncEnds, Supervisors
  <2> QED
    BY <1>0, <2>1 DEF AccountSupervisor, SyncPlace
<1>2. \A h \in Generation \ {g} : SyncEnds(sups, g)[h] = sups[h]
  BY DEF SyncEnds, Supervisors
<1>3. SyncEnds(sups, g) = [h \in Generation |-> SyncEnds(sups, g)[h]]
  BY DEF SyncEnds, Supervisors
<1> QED
  BY <1>1, <1>2, <1>3 DEF Supervisors, NoLogin

LEMMA PlaceIsTyped ==
    ASSUME NEW sups \in Supervisors, NEW g \in Generation,
           NEW place \in SyncPlace \ {"login"},
           supervisors' = [sups EXCEPT ![g].sync = place]
    PROVE  /\ supervisors' \in Supervisors /\ NoLogin(sups, supervisors')
           /\ supervisors'[g] = [sups[g] EXCEPT !.sync = supervisors'[g].sync]
           /\ supervisors'[g].sync = place
           /\ \A h \in Generation \ {g} : supervisors'[h] = sups[h]
<1>1. supervisors'[g] = [sups[g] EXCEPT !.sync = place]
  BY DEF Supervisors
<1>2. supervisors'[g] \in AccountSupervisor /\ supervisors'[g].sync = place
  BY <1>1 DEF Supervisors, AccountSupervisor
<1>3. \A h \in Generation \ {g} : supervisors'[h] = sups[h]
  BY DEF Supervisors
<1> QED
  BY <1>1, <1>2, <1>3 DEF Supervisors, NoLogin

LEMMA IterateOutcomes ==
    ASSUME TypeOK, NEW g \in Generation, NEW sups \in Supervisors,
           NEW now \in State, Iterate(g, sups, now)
    PROVE  /\ supervisors' \in Supervisors /\ NoLogin(sups, supervisors')
           /\ supervisors'[g].sync \in {"ended", "parked", "queued", "interval"}
           /\ waiting' \in Waiting
           /\ state' \in State
           /\ \/ StopsGone \/ EndsReplaced(g, sups, now)
              \/ GoesOn(g, sups, now)
<1>0. waiting \in Waiting /\ Append(waiting, <<g, "sync">>) \in Waiting
  BY DEF TypeOK, Waiting
<1>1. CASE ~is_current_supervisor(g)
  <2>1. /\ supervisors' = SyncEnds(sups, g)
        /\ state' = now /\ UNCHANGED <<current, waiting>>
    BY <1>1 DEF Iterate
  <2> QED
    BY <1>0, <1>1, <2>1, SyncEndsIsTyped
    DEF EndsReplaced, is_current_supervisor
<1>2. CASE is_current_supervisor(g) /\ ~configured
  <2>1. StopAccount(SyncEnds(sups, g), "stopped") /\ UNCHANGED waiting
    BY <1>2 DEF Iterate
  <2>2. /\ current' = 0 /\ state' = "stopped"
        /\ supervisors' \in Supervisors
        /\ NoLogin(SyncEnds(sups, g), supervisors')
        /\ supervisors'[g].sync = "ended"
    BY <2>1, SyncEndsIsTyped, StopAccountStops DEF State
  <2> QED
    BY <1>0, <1>2, <2>1, <2>2, SyncEndsIsTyped DEF StopsGone, NoLogin, State
<1>3. CASE is_current_supervisor(g) /\ configured
  <2>1. PICK place \in {"parked", "queued", "interval"} :
           /\ supervisors' = [sups EXCEPT ![g].sync = place]
           /\ state' = now /\ UNCHANGED current
           /\ waiting' \in {waiting, Append(waiting, <<g, "sync">>)}
           /\ place = "parked" => now = "reauth_required"
           /\ place = "interval" => sups[g].startup_sync_attempted
    BY <1>3 DEF Iterate, EnterSync
  <2>2. place \in SyncPlace \ {"login"}
    BY DEF SyncPlace
  <2>3. /\ supervisors' \in Supervisors /\ NoLogin(sups, supervisors')
        /\ supervisors'[g] = [sups[g] EXCEPT !.sync = supervisors'[g].sync]
        /\ supervisors'[g].sync = place
        /\ \A h \in Generation \ {g} : supervisors'[h] = sups[h]
    <3>1. supervisors' = [sups EXCEPT ![g].sync = place]
      BY <2>1
    <3> QED
      BY <2>2, <3>1, PlaceIsTyped
  <2>4. waiting' \in Waiting /\ state' \in State
    BY <1>0, <2>1
  <2>5. GoesOn(g, sups, now)
    <3>1. /\ g = current /\ configured /\ current' = current /\ state' = now
          /\ place = "parked" => now = "reauth_required"
          /\ place = "interval" => sups[g].startup_sync_attempted
          /\ place \in {"parked", "queued", "interval"}
      BY <1>3, <2>1 DEF is_current_supervisor
    <3> QED
      BY <2>3, <3>1 DEF GoesOn
  <2> QED
    BY <2>3, <2>4, <2>5
<1> QED
  BY <1>1, <1>2, <1>3

\* A wake and a request are flags of the supervisor in the registry.
LEMMA RequestedIsTyped ==
    ASSUME NEW sups \in Supervisors, current \in 0 .. MaxGeneration
    PROVE  /\ Requested(sups) \in Supervisors /\ NoLogin(sups, Requested(sups))
           /\ \A g \in Generation :
                 /\ g # current => Requested(sups)[g] = sups[g]
                 /\ g = current => Requested(sups)[g] =
                      [sups[g] EXCEPT !.pending_operations_requested = TRUE,
                                      !.operations_wake = TRUE]
<1>1. CASE current = 0
  BY <1>1, NoGenerationIsZero DEF Requested, NoLogin
<1>2. CASE current \in Generation
  <2>1. Requested(sups) = [sups EXCEPT
            ![current].pending_operations_requested = TRUE,
            ![current].operations_wake = TRUE]
    BY <1>2, NoGenerationIsZero DEF Requested
  <2>2. \A g \in Generation :
           Requested(sups)[g] =
              IF g = current
              THEN [sups[g] EXCEPT !.pending_operations_requested = TRUE,
                                   !.operations_wake = TRUE]
              ELSE sups[g]
    BY <1>2, <2>1 DEF Supervisors
  <2>3. \A g \in Generation :
           /\ Requested(sups)[g] \in AccountSupervisor
           /\ Requested(sups)[g].sync = sups[g].sync
           /\ Requested(sups)[g].syncWith = sups[g].syncWith
    <3>1. ASSUME NEW s \in AccountSupervisor
          PROVE  LET r == [s EXCEPT !.pending_operations_requested = TRUE,
                                    !.operations_wake = TRUE]
                 IN  r \in AccountSupervisor /\ r.sync = s.sync /\ r.syncWith = s.syncWith
      BY DEF AccountSupervisor
    <3> QED
      BY <2>2, <3>1 DEF Supervisors
  <2>4. Requested(sups) = [g \in Generation |-> Requested(sups)[g]]
    BY <2>1 DEF Supervisors
  <2> QED
    BY <2>2, <2>3, <2>4 DEF Supervisors, NoLogin
<1> QED
  BY <1>1, <1>2, NoGenerationIsZero

\* The flags after a round: every change but that of the place.
LEMMA AfterSyncIsTyped ==
    ASSUME TypeOK, NEW g \in Generation
    PROVE  /\ AfterSync(g) \in Supervisors
           /\ AfterSync(g)[g].sync = supervisors[g].sync
           /\ AfterSync(g)[g].startup_sync_attempted
           /\ AfterSync(g)[g].ops = supervisors[g].ops
           /\ g = current => /\ AfterSync(g)[g].pending_operations_requested
                             /\ AfterSync(g)[g].operations_wake
           /\ \A h \in Generation \ {g} :
                 /\ AfterSync(g)[h].sync = supervisors[h].sync
                 /\ AfterSync(g)[h].syncWith = supervisors[h].syncWith
<1>1. /\ Requested(supervisors) \in Supervisors
      /\ NoLogin(supervisors, Requested(supervisors))
      /\ \A h \in Generation :
            /\ h # current => Requested(supervisors)[h] = supervisors[h]
            /\ h = current => Requested(supervisors)[h] =
                 [supervisors[h] EXCEPT !.pending_operations_requested = TRUE,
                                        !.operations_wake = TRUE]
  BY RequestedIsTyped DEF TypeOK, Supervisors
<1> DEFINE r == Requested(supervisors)
<1>2. /\ AfterSync(g)[g] =
            [r[g] EXCEPT
                !.manual_sync_requested =
                    @ /\ supervisors[g].startup_sync_attempted,
                !.startup_sync_attempted = TRUE, !.syncWith = 0]
      /\ \A h \in Generation \ {g} : AfterSync(g)[h] = r[h]
      /\ AfterSync(g) = [h \in Generation |-> AfterSync(g)[h]]
  BY <1>1 DEF AfterSync, Supervisors
<1>3. \A h \in Generation :
         /\ supervisors[h] \in AccountSupervisor /\ r[h] \in AccountSupervisor
         /\ r[h].sync = supervisors[h].sync /\ r[h].ops = supervisors[h].ops
         /\ r[h].syncWith = supervisors[h].syncWith
         /\ h = current => r[h].pending_operations_requested /\ r[h].operations_wake
  <2> SUFFICES ASSUME NEW h \in Generation
               PROVE  /\ supervisors[h] \in AccountSupervisor
                      /\ r[h] \in AccountSupervisor
                      /\ r[h].sync = supervisors[h].sync
                      /\ r[h].ops = supervisors[h].ops
                      /\ r[h].syncWith = supervisors[h].syncWith
                      /\ h = current => /\ r[h].pending_operations_requested
                                        /\ r[h].operations_wake
    OBVIOUS
  <2>1. supervisors[h] \in AccountSupervisor /\ r[h] \in AccountSupervisor
    BY <1>1 DEF TypeOK, Supervisors
  <2>2. CASE h # current
    BY <1>1, <2>1, <2>2
  <2>3. CASE h = current
    BY <1>1, <2>1, <2>3 DEF AccountSupervisor
  <2> QED
    BY <2>1, <2>2, <2>3
<1> HIDE DEF r
<1>4. 0 \in 0 .. MaxVersion
  BY RuntimeAssumption
<1>5. AfterSync(g)[g] \in AccountSupervisor
  BY <1>2, <1>3, <1>4 DEF AccountSupervisor
<1>6. AfterSync(g) \in Supervisors
  BY <1>2, <1>3, <1>5 DEF Supervisors
<1> QED
  BY <1>2, <1>3, <1>6 DEF AccountSupervisor

LEMMA NoLoginIsTransitive ==
    ASSUME NEW a, NEW b, NEW c, NoLogin(a, b), NoLogin(b, c)
    PROVE  NoLogin(a, c)
  BY DEF NoLogin

LEMMA NoLoginKeepsVersions ==
    ASSUME LoginHasVersion, NoLogin(supervisors, supervisors')
    PROVE  LoginHasVersion'
  BY DEF LoginHasVersion, NoLogin, SyncAt

\* The flags as the loop leaves them when it starts and when its wait ends.
SameWork(s, t) ==
    /\ t.sync = s.sync /\ t.syncWith = s.syncWith
    /\ t.ops = s.ops /\ t.operations_wake = s.operations_wake
    /\ t.pending_operations_requested = s.pending_operations_requested
    /\ t.startup_sync_attempted = s.startup_sync_attempted
Started(g) == [supervisors EXCEPT ![g].sync_wake = @ /\ SyncAt(g, "spawned")]
Wakened(g, wake) == [supervisors EXCEPT ![g].sync_wake = @ /\ wake # "requested",
                                        ![g].manual_sync_requested = FALSE,
                                        ![g].every = "manual"]

LEMMA FlagsAreTyped ==
    ASSUME TypeOK, NEW g \in Generation, NEW wake
    PROVE  /\ Started(g) \in Supervisors /\ NoLogin(supervisors, Started(g))
           /\ Wakened(g, wake) \in Supervisors
           /\ NoLogin(supervisors, Wakened(g, wake))
           /\ \A h \in Generation \ {g} : /\ Started(g)[h] = supervisors[h]
                                         /\ Wakened(g, wake)[h] = supervisors[h]
           /\ SameWork(supervisors[g], Started(g)[g])
           /\ SameWork(supervisors[g], Wakened(g, wake)[g])
<1>1. /\ supervisors[g] \in AccountSupervisor
      /\ supervisors = [h \in Generation |-> supervisors[h]]
  BY DEF TypeOK
<1>2. /\ Started(g)[g] =
            [supervisors[g] EXCEPT !.sync_wake = @ /\ SyncAt(g, "spawned")]
      /\ \A h \in Generation \ {g} : Started(g)[h] = supervisors[h]
      /\ Started(g) = [h \in Generation |-> Started(g)[h]]
  BY DEF Started, TypeOK
<1>3. /\ Wakened(g, wake)[g] =
            [supervisors[g] EXCEPT !.sync_wake = @ /\ wake # "requested",
                                   !.manual_sync_requested = FALSE,
                                   !.every = "manual"]
      /\ \A h \in Generation \ {g} : Wakened(g, wake)[h] = supervisors[h]
      /\ Wakened(g, wake) = [h \in Generation |-> Wakened(g, wake)[h]]
  BY DEF Wakened, TypeOK
<1>4. Started(g)[g] \in AccountSupervisor
  BY <1>1, <1>2 DEF AccountSupervisor
<1>5. Wakened(g, wake)[g] \in AccountSupervisor
  BY <1>1, <1>3 DEF AccountSupervisor
<1>6. Started(g) \in Supervisors /\ Wakened(g, wake) \in Supervisors
  BY <1>2, <1>3, <1>4, <1>5 DEF Supervisors, TypeOK
<1>7. SameWork(supervisors[g], Started(g)[g])
  BY <1>1, <1>2 DEF AccountSupervisor, SameWork
<1>8. SameWork(supervisors[g], Wakened(g, wake)[g])
  BY <1>1, <1>3 DEF AccountSupervisor, SameWork
<1> QED
  BY <1>2, <1>3, <1>6, <1>7, <1>8 DEF NoLogin, SameWork

\* The end of run_sync, by the loop of the registry or a replaced one.
LEMMA ConcludeIsTyped ==
    ASSUME TypeOK, NEW g \in Generation, NEW result \in State,
           Conclude(g, result)
    PROVE  /\ supervisors' \in Supervisors /\ NoLogin(supervisors, supervisors')
           /\ waiting' \in Waiting /\ state' \in State
           /\ \/ StopsGone \/ EndsReplaced(g, supervisors, state)
              \/ GoesOn(g, AfterSync(g), result)
<1>1. CASE is_current_supervisor(g) /\ Iterate(g, AfterSync(g), result)
  <2>1. AfterSync(g) \in Supervisors
    BY AfterSyncIsTyped
  <2>2. NoLogin(supervisors, supervisors')
    BY <1>1, <2>1, AfterSyncIsTyped, IterateOutcomes DEF NoLogin
  <2> QED
    BY <1>1, <2>1, <2>2, IterateOutcomes, NoGenerationIsZero
    DEF EndsReplaced, GoesOn, is_current_supervisor
<1>2. CASE ~is_current_supervisor(g) /\ Iterate(g, supervisors, state)
  <2>1. supervisors \in Supervisors /\ state \in State
    BY DEF TypeOK, Supervisors
  <2> QED
    BY <1>2, <2>1, IterateOutcomes DEF GoesOn, is_current_supervisor
<1> QED
  BY <1>1, <1>2 DEF Conclude

LEMMA AnswersAreStates ==
    ASSUME NEW v PROVE Answers(v) \subseteq State
  BY DEF Answers, handle_runtime_error, State

(* Every step keeps the types *)

LEMMA LoopStepIsTyped ==
    ASSUME TypeInv, UNCHANGED <<account, outside>>,
           supervisors' \in Supervisors, current' \in 0 .. MaxGeneration,
           state' \in State, waiting' \in Waiting, LoginHasVersion',
           operation' \in {"none", "queued", "running", "retry_wait"},
           tried' \subseteq Version
    PROVE  TypeInv'
  BY DEF TypeInv, TypeOK, Supervisors, Waiting, account, outside

LEMMA SyncLoopIsTyped ==
    ASSUME TypeInv, NEW g \in Generation, SyncLoop(g)
    PROVE  TypeInv'
<1>0. /\ TypeOK /\ LoginHasVersion /\ supervisors \in Supervisors
      /\ current \in 0 .. MaxGeneration /\ 0 \in 0 .. MaxGeneration
      /\ state \in State /\ waiting \in Waiting
      /\ operation \in {"none", "queued", "running", "retry_wait"}
      /\ tried \subseteq Version
  BY NoGenerationIsZero DEF TypeInv, TypeOK, Supervisors, Waiting
<1>1. ASSUME StopsGone \/ UNCHANGED current
             \/ (\E sups, now : EndsReplaced(g, sups, now))
             \/ (\E sups, now : GoesOn(g, sups, now))
      PROVE  current' \in 0 .. MaxGeneration
  BY <1>0, <1>1 DEF StopsGone, EndsReplaced, GoesOn
<1>2. ASSUME waiting # <<>>
      PROVE  Tail(waiting) \in Waiting
  BY <1>0, <1>2 DEF Waiting
<1>3. CASE LoopStarts(g)
  <2>1. /\ Iterate(g, Started(g), state)
        /\ UNCHANGED <<account, outside, operation, tried>>
    BY <1>3 DEF LoopStarts, Started
  <2>2. /\ supervisors' \in Supervisors /\ NoLogin(Started(g), supervisors')
        /\ waiting' \in Waiting /\ state' \in State
        /\ current' \in 0 .. MaxGeneration
    BY <1>0, <1>1, <2>1, FlagsAreTyped, IterateOutcomes
  <2>3. LoginHasVersion'
    BY <1>0, <2>2, FlagsAreTyped, NoLoginIsTransitive, NoLoginKeepsVersions
  <2> QED
    BY <1>0, <2>1, <2>2, <2>3, LoopStepIsTyped
<1>4. CASE ReadInterval(g)
  <2>1. supervisors' = [supervisors EXCEPT ![g].sync = "waiting",
                                           ![g].every = interval]
    BY <1>4 DEF ReadInterval
  <2>2. supervisors'[g] = [supervisors[g] EXCEPT !.sync = "waiting",
                                                 !.every = interval]
    BY <1>0, <2>1 DEF Supervisors
  <2>0. supervisors[g] \in AccountSupervisor /\ interval \in {"manual", "periodic"}
    BY <1>0 DEF Supervisors, TypeOK
  <2>3. supervisors'[g] \in AccountSupervisor /\ supervisors'[g].sync = "waiting"
    BY <2>0, <2>2 DEF AccountSupervisor, SyncPlace
  <2>4. supervisors' \in Supervisors /\ NoLogin(supervisors, supervisors')
    BY <1>0, <2>1, <2>3 DEF Supervisors, NoLogin
  <2> QED
    <3>1. /\ UNCHANGED <<account, outside, current, state, waiting>>
          /\ UNCHANGED <<operation, tried>>
      BY <1>4 DEF ReadInterval
    <3> QED
      BY <1>0, <2>4, <3>1, NoLoginKeepsVersions, LoopStepIsTyped
<1>5. ASSUME NEW wake \in {"requested", "periodic"}, WaitEnds(g, wake)
      PROVE  TypeInv'
  <2>1. /\ UNCHANGED <<account, outside, operation, tried>>
        /\ \/ EnterSync(g, Wakened(g, wake)) /\ UNCHANGED <<current, state>>
           \/ Iterate(g, Wakened(g, wake), state)
    BY <1>5 DEF WaitEnds, Wakened
  <2>2. /\ supervisors' \in Supervisors
        /\ NoLogin(Wakened(g, wake), supervisors')
        /\ waiting' \in Waiting /\ state' \in State
        /\ current' \in 0 .. MaxGeneration
    <3>1. CASE EnterSync(g, Wakened(g, wake)) /\ UNCHANGED <<current, state>>
      <4>1. "queued" \in SyncPlace \ {"login"}
        BY DEF SyncPlace
      <4>2. Append(waiting, <<g, "sync">>) \in Waiting
        BY <1>0 DEF Waiting
      <4> QED
        BY <1>0, <3>1, <4>1, <4>2, FlagsAreTyped, PlaceIsTyped DEF EnterSync
    <3>2. CASE Iterate(g, Wakened(g, wake), state)
      BY <1>0, <1>1, <3>2, FlagsAreTyped, IterateOutcomes
    <3> QED
      BY <2>1, <3>1, <3>2
  <2>3. LoginHasVersion'
    BY <1>0, <2>2, FlagsAreTyped, NoLoginIsTransitive, NoLoginKeepsVersions
  <2> QED
    BY <1>0, <2>1, <2>2, <2>3, LoopStepIsTyped
<1>6. CASE SyncGranted(g)
  <2>1. waiting' \in Waiting /\ UNCHANGED <<account, outside, operation, tried>>
    BY <1>2, <1>6 DEF SyncGranted
  <2>2. CASE /\ supervisors' = [supervisors EXCEPT ![g].sync = "opening"]
             /\ UNCHANGED <<current, state>>
    BY <1>0, <2>1, <2>2, PlaceIsTyped, NoLoginKeepsVersions, LoopStepIsTyped
    DEF SyncPlace
  <2>3. CASE StopAccount(SyncEnds(supervisors, g), "stopped")
    <3>1. /\ current' = 0 /\ state' = "stopped"
          /\ supervisors' \in Supervisors
          /\ NoLogin(SyncEnds(supervisors, g), supervisors')
      BY <1>0, <2>3, SyncEndsIsTyped, StopAccountStops DEF State
    <3>2. LoginHasVersion'
      BY <1>0, <3>1, SyncEndsIsTyped, NoLoginIsTransitive, NoLoginKeepsVersions
    <3> QED
      BY <1>0, <2>1, <3>1, <3>2, LoopStepIsTyped DEF State
  <2>4. CASE /\ supervisors' = SyncEnds(supervisors, g)
             /\ UNCHANGED <<current, state>>
    BY <1>0, <2>1, <2>4, SyncEndsIsTyped, NoLoginKeepsVersions, LoopStepIsTyped
  <2> QED
    BY <1>6, <2>2, <2>3, <2>4 DEF SyncGranted
<1>7. CASE StartSyncing(g)
  <2>1. UNCHANGED <<account, outside, operation, tried>>
    BY <1>7 DEF StartSyncing
  <2>2. CASE /\ state' = "syncing" /\ UNCHANGED <<current, waiting>>
             /\ supervisors' = [supervisors EXCEPT ![g].sync = "login",
                                                   ![g].syncWith = version]
    <3>1. supervisors'[g] = [supervisors[g] EXCEPT !.sync = "login",
                                                   !.syncWith = version]
      BY <1>0, <2>2 DEF Supervisors
    <3>2. version \in Version /\ version \in 0 .. MaxVersion
      BY <1>0, RuntimeAssumption DEF TypeOK, Version
    <3>3. /\ supervisors'[g] \in AccountSupervisor
          /\ supervisors'[g].syncWith = version
      BY <1>0, <3>1, <3>2 DEF Supervisors, AccountSupervisor, SyncPlace
    <3>4. supervisors' \in Supervisors
      BY <1>0, <2>2, <3>3 DEF Supervisors
    <3>5. LoginHasVersion'
      BY <1>0, <2>1, <2>2, <3>2, <3>3
      DEF LoginHasVersion, SyncAt, Supervisors
    <3> QED
      BY <1>0, <2>1, <2>2, <3>4, <3>5, LoopStepIsTyped DEF State
  <2>3. CASE Conclude(g, "offline")
    <3>1. "offline" \in State
      BY DEF State
    <3> QED
      BY <1>0, <1>1, <2>1, <2>3, <3>1, ConcludeIsTyped, NoLoginKeepsVersions,
         LoopStepIsTyped
  <2> QED
    BY <1>7, <2>2, <2>3 DEF StartSyncing
<1>8. ASSUME NEW result \in State, SyncReturns(g, result)
      PROVE  TypeInv'
  <2>1. tried' \subseteq Version
    BY <1>0, <1>8 DEF SyncReturns, LoginHasVersion
  <2> QED
    BY <1>0, <1>1, <1>8, <2>1, ConcludeIsTyped, NoLoginKeepsVersions,
       LoopStepIsTyped DEF SyncReturns
<1> QED
  BY <1>3, <1>4, <1>5, <1>6, <1>7, <1>8 DEF SyncLoop

\* The loop over operations leaves alone what the other loop reads.
SameSync(s, t) ==
    /\ t.sync = s.sync /\ t.syncWith = s.syncWith
    /\ t.sync_wake = s.sync_wake /\ t.every = s.every
    /\ t.startup_sync_attempted = s.startup_sync_attempted
SyncUntouched == \A g \in Generation : SameSync(supervisors[g], supervisors'[g])

\* The outcomes of an iteration of pending_operations_loop.
Parks(g, sups) ==
    /\ supervisors'[g].ops = "parked"
    /\ state = "reauth_required" \/ ~sups[g].pending_operations_requested
    /\ supervisors'[g].pending_operations_requested
          = sups[g].pending_operations_requested
    /\ supervisors'[g].operations_wake = sups[g].operations_wake

LEMMA OpsIterateOutcomes ==
    ASSUME TypeOK, NEW g \in Generation, NEW sups \in Supervisors,
           OpsIterate(g, sups)
    PROVE  /\ supervisors' \in Supervisors /\ waiting' \in Waiting
           /\ SameSync(sups[g], supervisors'[g])
           /\ \A h \in Generation \ {g} : supervisors'[h] = sups[h]
           /\ \/ ~(g = current /\ configured) \/ Parks(g, sups)
              \/ supervisors'[g].ops = "queued"
<1>0. /\ waiting \in Waiting /\ Append(waiting, <<g, "ops">>) \in Waiting
      /\ sups[g] \in AccountSupervisor
  BY DEF TypeOK, Waiting, Supervisors
<1>1. CASE ~is_current_supervisor(g) \/ ~configured
  <2>1. /\ supervisors' = [sups EXCEPT ![g].ops = "ended",
                                       ![g].operations_wake = FALSE]
        /\ UNCHANGED waiting
    BY <1>1 DEF OpsIterate
  <2>2. supervisors'[g] = [sups[g] EXCEPT !.ops = "ended",
                                          !.operations_wake = FALSE]
    BY <2>1 DEF Supervisors
  <2>3. supervisors'[g] \in AccountSupervisor /\ SameSync(sups[g], supervisors'[g])
    BY <1>0, <2>2 DEF AccountSupervisor, OpsPlace, SameSync
  <2> QED
    BY <1>0, <1>1, <2>1, <2>3 DEF Supervisors, is_current_supervisor
<1>2. CASE is_current_supervisor(g) /\ configured
           /\ (state = "reauth_required" \/ ~sups[g].pending_operations_requested)
  <2>1. supervisors' = [sups EXCEPT ![g].ops = "parked"] /\ UNCHANGED waiting
    BY <1>2 DEF OpsIterate
  <2>2. supervisors'[g] = [sups[g] EXCEPT !.ops = "parked"]
    BY <2>1 DEF Supervisors
  <2>3. /\ supervisors'[g] \in AccountSupervisor
        /\ SameSync(sups[g], supervisors'[g]) /\ Parks(g, sups)
    BY <1>0, <1>2, <2>2 DEF AccountSupervisor, OpsPlace, SameSync, Parks
  <2> QED
    BY <1>0, <2>1, <2>3 DEF Supervisors
<1>3. CASE is_current_supervisor(g) /\ configured
           /\ ~(state = "reauth_required" \/ ~sups[g].pending_operations_requested)
  <2>1. /\ supervisors' = [sups EXCEPT ![g].ops = "queued",
                                       ![g].pending_operations_requested = FALSE]
        /\ waiting' = Append(waiting, <<g, "ops">>)
    BY <1>3 DEF OpsIterate
  <2>2. supervisors'[g] = [sups[g] EXCEPT !.ops = "queued",
                                          !.pending_operations_requested = FALSE]
    BY <2>1 DEF Supervisors
  <2>3. /\ supervisors'[g] \in AccountSupervisor
        /\ SameSync(sups[g], supervisors'[g]) /\ supervisors'[g].ops = "queued"
    BY <1>0, <2>2 DEF AccountSupervisor, OpsPlace, SameSync
  <2> QED
    BY <1>0, <2>1, <2>3 DEF Supervisors
<1> QED
  BY <1>1, <1>2, <1>3

LEMMA OpsPlaceIsTyped ==
    ASSUME TypeOK, NEW g \in Generation, NEW place \in OpsPlace,
           supervisors' = [supervisors EXCEPT ![g].ops = place]
    PROVE  /\ supervisors' \in Supervisors /\ SyncUntouched
           /\ supervisors'[g].ops = place
           /\ supervisors'[g].pending_operations_requested
                 = supervisors[g].pending_operations_requested
           /\ \A h \in Generation \ {g} : supervisors'[h] = supervisors[h]
<1>1. /\ supervisors'[g] = [supervisors[g] EXCEPT !.ops = place]
      /\ supervisors[g] \in AccountSupervisor
      /\ \A h \in Generation \ {g} : supervisors'[h] = supervisors[h]
  BY DEF TypeOK
<1>2. /\ supervisors'[g] \in AccountSupervisor /\ supervisors'[g].ops = place
      /\ SameSync(supervisors[g], supervisors'[g])
      /\ supervisors'[g].pending_operations_requested
            = supervisors[g].pending_operations_requested
  BY <1>1 DEF AccountSupervisor, SameSync
<1> QED
  BY <1>1, <1>2 DEF Supervisors, SyncUntouched, SameSync, TypeOK

OpsStarted(g) ==
    [supervisors EXCEPT ![g].operations_wake = @ /\ OpsAt(g, "spawned")]

\* What a step of the loop leaves: at most its place, its wake and its request.
LEMMA OpsLoopOutcomes ==
    ASSUME TypeOK, NEW g \in Generation, OpsLoop(g)
    PROVE  /\ supervisors' \in Supervisors /\ waiting' \in Waiting
           /\ SyncUntouched /\ UNCHANGED opsUnchanged
           /\ operation' \in {"none", "queued", "running", "retry_wait"}
           /\ operation' = "queued" => operation = "queued"
           /\ \A h \in Generation \ {g} : supervisors'[h] = supervisors[h]
           /\ \/ ~(g = current /\ configured)
              \/ supervisors'[g].ops \in {"queued", "claim"}
              \/ operation' # "queued"
              \/ Parks(g, OpsStarted(g))
                 /\ supervisors[g].ops \notin {"queued", "claim"}
<1>0. /\ waiting \in Waiting /\ supervisors \in Supervisors
      /\ supervisors[g] \in AccountSupervisor
      /\ operation \in {"none", "queued", "running", "retry_wait"}
  BY DEF TypeOK, Waiting, Supervisors
<1>1. ASSUME OpsIterate(g, supervisors)
      PROVE  /\ supervisors' \in Supervisors /\ waiting' \in Waiting
             /\ SyncUntouched
             /\ \A h \in Generation \ {g} : supervisors'[h] = supervisors[h]
  BY <1>0, <1>1, OpsIterateOutcomes DEF SyncUntouched, SameSync
<1>2. CASE OpsStarts(g)
  <2>1. /\ OpsIterate(g, OpsStarted(g)) /\ UNCHANGED <<opsUnchanged, operation>>
        /\ supervisors[g].ops \in {"spawned", "parked"}
    BY <1>2 DEF OpsStarts, OpsStarted, OpsAt
  <2>2. /\ OpsStarted(g)[g] =
             [supervisors[g] EXCEPT !.operations_wake = @ /\ OpsAt(g, "spawned")]
        /\ \A h \in Generation \ {g} : OpsStarted(g)[h] = supervisors[h]
        /\ OpsStarted(g) = [h \in Generation |-> OpsStarted(g)[h]]
    BY <1>0 DEF OpsStarted, Supervisors
  <2>3. /\ OpsStarted(g)[g] \in AccountSupervisor
        /\ SameSync(supervisors[g], OpsStarted(g)[g])
    BY <1>0, <2>2 DEF AccountSupervisor, SameSync
  <2>4. OpsStarted(g) \in Supervisors
    BY <1>0, <2>2, <2>3 DEF Supervisors
  <2>5. SyncUntouched
    <3>1. /\ SameSync(OpsStarted(g)[g], supervisors'[g])
          /\ \A h \in Generation \ {g} : supervisors'[h] = supervisors[h]
      BY <2>1, <2>2, <2>4, OpsIterateOutcomes
    <3> QED
      BY <2>3, <3>1 DEF SyncUntouched, SameSync
  <2> QED
    BY <1>0, <2>1, <2>2, <2>4, <2>5, OpsIterateOutcomes
<1>3. CASE OpsGranted(g)
  <2>1. Tail(waiting) \in Waiting /\ waiting' = Tail(waiting)
    BY <1>0, <1>3 DEF OpsGranted, Waiting
  <2>2. "claim" \in OpsPlace
    BY DEF OpsPlace
  <2> QED
    BY <1>0, <1>3, <2>1, <2>2, OpsPlaceIsTyped DEF OpsGranted
<1>4. CASE ClaimOperation(g)
  <2>1. CASE /\ operation' = "running" /\ UNCHANGED waiting
             /\ supervisors' = [supervisors EXCEPT ![g].ops = "apply"]
    <3>1. "apply" \in OpsPlace
      BY DEF OpsPlace
    <3> QED
      BY <1>0, <1>4, <2>1, <3>1, OpsPlaceIsTyped DEF ClaimOperation
  <2>2. CASE /\ OpsIterate(g, supervisors)
             /\ operation' \in {"none", "running"}
    BY <1>1, <1>4, <2>2 DEF ClaimOperation
  <2> QED
    BY <1>4, <2>1, <2>2 DEF ClaimOperation
<1>5. ASSUME NEW retry \in BOOLEAN, OperationReturns(g, retry)
      PROVE  /\ supervisors' \in Supervisors /\ waiting' \in Waiting
             /\ SyncUntouched /\ UNCHANGED opsUnchanged
             /\ operation' \in {"none", "retry_wait"}
             /\ \A h \in Generation \ {g} : supervisors'[h] = supervisors[h]
  <2>1. CASE OpsIterate(g, supervisors)
    BY <1>1, <1>5, <2>1 DEF OperationReturns
  <2>2. CASE /\ supervisors' = [supervisors EXCEPT ![g].ops = "claim"]
             /\ UNCHANGED waiting
    <3>1. "claim" \in OpsPlace
      BY DEF OpsPlace
    <3> QED
      BY <1>0, <1>5, <2>2, <3>1, OpsPlaceIsTyped DEF OperationReturns
  <2> QED
    BY <1>5, <2>1, <2>2 DEF OperationReturns
<1> QED
  BY <1>2, <1>3, <1>4, <1>5 DEF OpsLoop

LEMMA OpsLoopIsTyped ==
    ASSUME TypeInv, NEW g \in Generation, OpsLoop(g)
    PROVE  TypeInv'
<1>1. LoginHasVersion'
  BY OpsLoopOutcomes
  DEF TypeInv, LoginHasVersion, SyncAt, SyncUntouched, SameSync
<1> QED
  BY <1>1, OpsLoopOutcomes, LoopStepIsTyped DEF opsUnchanged, TypeInv, TypeOK

\* Everything but the runtime: what a command or an event may change.
Command == [update : {"idle", "saved"}, add : {"idle", "saved"},
            remove : {"idle", "begun", "checked", "removed"}]
WorldTypeOK ==
    /\ configured \in BOOLEAN /\ version \in Version /\ accepted \subseteq Version
    /\ interval \in {"manual", "periodic"}
    /\ started \in BOOLEAN /\ demo \in BOOLEAN /\ waiting \in Waiting
    /\ operation \in {"none", "queued", "running", "retry_wait"}
    /\ command \in Command /\ sender \in 0 .. MaxVersion
    /\ spent \in [commands : 0 .. MaxCommands, events : 0 .. MaxEvents]
    /\ tried \subseteq Version
RuntimeTypeOK ==
    /\ current \in 0 .. MaxGeneration /\ supervisors \in Supervisors
    /\ state \in State

LEMMA TypeParts == TypeOK <=> WorldTypeOK /\ RuntimeTypeOK
  BY DEF TypeOK, WorldTypeOK, RuntimeTypeOK, Supervisors, Waiting, Command

Environment ==
    \/ Start \/ AddAccount \/ UpdateAccount \/ BeginRemove \/ Commands
    \/ OtherReconciles \/ SyncNow \/ SetSyncInterval \/ QueueOperation
    \/ SenderStarts \/ SenderReports \/ ServerRefuses
    \/ EnterDemo

LEMMA SpendingIsTyped ==
    ASSUME WorldTypeOK, Begin \/ Happens
    PROVE  spent' \in [commands : 0 .. MaxCommands, events : 0 .. MaxEvents]
<1>1. /\ spent.commands \in 0 .. MaxCommands /\ spent.events \in 0 .. MaxEvents
      /\ spent = [commands |-> spent.commands, events |-> spent.events]
  BY DEF WorldTypeOK
<1>2. MaxCommands \in Nat /\ MaxEvents \in Nat
  BY RuntimeAssumption
<1>3. CASE Begin
  <2>1. /\ spent.commands + 1 \in 0 .. MaxCommands
        /\ spent' = [spent EXCEPT !.commands = @ + 1]
    BY <1>1, <1>2, <1>3 DEF Begin
  <2> QED
    BY <1>1, <2>1
<1>4. CASE Happens
  <2>1. /\ spent.events + 1 \in 0 .. MaxEvents
        /\ spent' = [spent EXCEPT !.events = @ + 1]
    BY <1>1, <1>2, <1>4 DEF Happens
  <2> QED
    BY <1>1, <2>1
<1> QED
  BY <1>3, <1>4

LEMMA EnvironmentKeepsTheWorld ==
    ASSUME TypeInv, Environment
    PROVE  WorldTypeOK'
<1>0. WorldTypeOK
  BY TypeParts DEF TypeInv
<1> DEFINE S == spent' \in [commands : 0 .. MaxCommands, events : 0 .. MaxEvents]
<1>1. Begin \/ Happens => S
  BY <1>0, SpendingIsTyped
<1>2. UNCHANGED spent => S
  BY <1>0 DEF WorldTypeOK
<1>3. CASE AddAccount
  BY <1>0, <1>1, <1>3 DEF AddAccount, WorldTypeOK, Command
<1>4. CASE UpdateAccount
  <2>1. version + 1 \in Version
    BY <1>0, <1>4, RuntimeAssumption DEF UpdateAccount, WorldTypeOK, Version
  <2> QED
    BY <1>0, <1>1, <1>4, <2>1 DEF UpdateAccount, WorldTypeOK, Command
<1>5. CASE BeginRemove
  BY <1>0, <1>1, <1>5 DEF BeginRemove, WorldTypeOK, Command, account
<1>6. CASE Commands
  BY <1>0, <1>2, <1>6
  DEF Commands, AddReconciles, UpdateRestarts, RemovalAllowed, RemovalFails,
      RemoveAccount, WorldTypeOK, Command, account
<1>7. CASE Start \/ OtherReconciles \/ EnterDemo
  BY <1>0, <1>2, <1>7
  DEF Start, OtherReconciles, EnterDemo, WorldTypeOK, account, outside
<1>8. CASE SyncNow \/ SetSyncInterval \/ QueueOperation
  BY <1>0, <1>1, <1>8
  DEF SyncNow, SetSyncInterval, QueueOperation, WorldTypeOK, account
<1>9. CASE SenderStarts
  <2>1. version \in 0 .. MaxVersion
    BY <1>0, RuntimeAssumption DEF WorldTypeOK, Version
  <2> QED
    BY <1>0, <1>1, <1>9, <2>1 DEF SenderStarts, WorldTypeOK, account
<1>10. CASE SenderReports
  <2>1. 0 \in 0 .. MaxVersion
    BY RuntimeAssumption
  <2> QED
    BY <1>0, <1>2, <1>10, <2>1 DEF SenderReports, WorldTypeOK, account
<1>11. CASE ServerRefuses
  BY <1>0, <1>1, <1>11 DEF ServerRefuses, WorldTypeOK
<1> QED
  BY <1>3, <1>4, <1>5, <1>6, <1>7, <1>8, <1>9, <1>10, <1>11 DEF Environment

\* A command or an event leaves the loops where they are: it wakes them, makes
\* a request of them, takes them out of the registry or starts new ones.
Nudged(s, t) ==
    /\ t.sync = s.sync /\ t.syncWith = s.syncWith /\ t.ops = s.ops
    /\ t.every = s.every
    /\ t.startup_sync_attempted = s.startup_sync_attempted
    /\ s.sync_wake => t.sync_wake
    /\ s.operations_wake => t.operations_wake
    /\ s.pending_operations_requested => t.pending_operations_requested
StaysInRegistry ==
    /\ UNCHANGED current
    /\ \A g \in Generation : Nudged(supervisors[g], supervisors'[g])

LEMMA NudgedIsNoLogin == StaysInRegistry => NoLogin(supervisors, supervisors')
  BY DEF StaysInRegistry, Nudged, NoLogin

LEMMA WakingStays ==
    ASSUME RuntimeTypeOK, UNCHANGED current, current # 0,
           supervisors' = [supervisors EXCEPT ![current].sync_wake = TRUE]
           \/ supervisors' = [supervisors EXCEPT ![current].sync_wake = TRUE,
                                                ![current].operations_wake = TRUE]
           \/ supervisors' = [supervisors EXCEPT ![current].sync_wake = TRUE,
                                   ![current].manual_sync_requested = TRUE]
    PROVE  /\ supervisors' \in Supervisors /\ StaysInRegistry
           /\ supervisors'[current].sync_wake
<1>1. current \in Generation /\ supervisors[current] \in AccountSupervisor
  BY NoGenerationIsZero DEF RuntimeTypeOK, Supervisors
<1>2. /\ \A h \in Generation \ {current} : supervisors'[h] = supervisors[h]
      /\ supervisors' = [h \in Generation |-> supervisors'[h]]
      /\ \/ supervisors'[current] = [supervisors[current] EXCEPT !.sync_wake = TRUE]
         \/ supervisors'[current] = [supervisors[current] EXCEPT
                !.sync_wake = TRUE, !.operations_wake = TRUE]
         \/ supervisors'[current] = [supervisors[current] EXCEPT
                !.sync_wake = TRUE, !.manual_sync_requested = TRUE]
  BY <1>1 DEF RuntimeTypeOK, Supervisors
<1>3. /\ supervisors'[current] \in AccountSupervisor
      /\ Nudged(supervisors[current], supervisors'[current])
      /\ supervisors'[current].sync_wake
  BY <1>1, <1>2 DEF AccountSupervisor, Nudged
<1>4. supervisors' \in Supervisors
  BY <1>2, <1>3 DEF RuntimeTypeOK, Supervisors
<1> QED
  BY <1>1, <1>2, <1>3, <1>4 DEF StaysInRegistry, Nudged

LEMMA RequestingStays ==
    ASSUME RuntimeTypeOK, UNCHANGED current, supervisors' = Requested(supervisors)
    PROVE  /\ supervisors' \in Supervisors /\ StaysInRegistry
           /\ current # 0 => /\ supervisors'[current].operations_wake
                             /\ supervisors'[current].pending_operations_requested
<1>1. /\ supervisors' \in Supervisors
      /\ \A g \in Generation :
            /\ supervisors[g] \in AccountSupervisor
            /\ g # current => supervisors'[g] = supervisors[g]
            /\ g = current => supervisors'[g] =
                 [supervisors[g] EXCEPT !.pending_operations_requested = TRUE,
                                        !.operations_wake = TRUE]
  BY RequestedIsTyped DEF RuntimeTypeOK, Supervisors
<1>2. \A g \in Generation :
         /\ Nudged(supervisors[g], supervisors'[g])
         /\ g = current => /\ supervisors'[g].operations_wake
                           /\ supervisors'[g].pending_operations_requested
  <2> SUFFICES ASSUME NEW g \in Generation
               PROVE  /\ Nudged(supervisors[g], supervisors'[g])
                      /\ g = current =>
                            /\ supervisors'[g].operations_wake
                            /\ supervisors'[g].pending_operations_requested
    OBVIOUS
  <2>1. CASE g # current
    BY <1>1, <2>1 DEF Nudged
  <2>2. CASE g = current
    BY <1>1, <2>2 DEF Nudged, AccountSupervisor
  <2> QED
    BY <2>1, <2>2
<1>3. current # 0 => current \in Generation
  BY NoGenerationIsZero DEF RuntimeTypeOK
<1> QED
  BY <1>1, <1>2, <1>3 DEF StaysInRegistry

\* The steps that supervise: they start a loop if there should be one.
Supervises ==
    \/ Start \/ AddReconciles \/ UpdateRestarts \/ RemovalFails
    \/ OtherReconciles
    \/ RemoveAccount /\ command.remove = "removed"
Restarts == UpdateRestarts \/ RemovalFails

LEMMA SupervisesOutcomes ==
    ASSUME TypeInv, Supervises
    PROVE  /\ RuntimeTypeOK' /\ NoLogin(supervisors, supervisors')
           /\ UNCHANGED <<configured, version, accepted, demo, interval, tried>>
           /\ UNCHANGED operation
           /\ IF Start THEN started' ELSE started' = started
           /\ \/ /\ StaysInRegistry /\ UNCHANGED <<supervisors, state>>
                 /\ ~Restarts /\ (Start \/ configured \/ current = 0)
                 /\ current # 0 \/ demo \/ ~configured \/ ~started'
              \/ current' = 0 /\ (demo \/ ~configured \/ ~started')
              \/ Renewed(configured, started')
<1>1. /\ TypeOK /\ current \in 0 .. MaxGeneration
      /\ configured \in BOOLEAN /\ started \in BOOLEAN
  BY DEF TypeInv, TypeOK
<1>2. PICK stopped \in BOOLEAN :
         /\ Supervise(stopped, configured, started')
         /\ Restarts => stopped
         /\ ~stopped => Start \/ configured \/ current = 0
  BY <1>1
  DEF Supervises, Restarts, Start, AddReconciles, UpdateRestarts, RemovalFails,
      OtherReconciles, RemoveAccount, restart_account, reconcile_accounts, outside
<1>3. /\ UNCHANGED <<configured, version, accepted, demo, interval, tried>>
      /\ UNCHANGED operation
      /\ IF Start THEN started' ELSE started' = started
  BY DEF Supervises, Start, AddReconciles, UpdateRestarts, RemovalFails,
         OtherReconciles, RemoveAccount, outside, account
<1>4. started' \in BOOLEAN
  BY <1>1, <1>3 DEF Start
<1>5. /\ supervisors' \in Supervisors /\ state' \in State
      /\ NoLogin(supervisors, supervisors')
      /\ \/ Untouched(stopped, configured, started')
         \/ Removed(configured, started') \/ Renewed(configured, started')
  BY <1>1, <1>2, <1>4, SuperviseOutcomes
<1>6. current' \in 0 .. MaxGeneration
  BY <1>1, <1>5, NoGenerationIsZero DEF Untouched, Removed, Renewed
<1> QED
  BY <1>2, <1>3, <1>5, <1>6
  DEF Untouched, Removed, RuntimeTypeOK, StaysInRegistry, Nudged

\* The other steps of the environment.
Leaves == \/ BeginRemove /\ ~Idle'
          \/ EnterDemo /\ ~started'
Wakes ==
    \/ AddAccount \/ UpdateAccount \/ RemovalAllowed
    \/ RemoveAccount /\ command.remove = "checked"
    \/ SyncNow \/ SetSyncInterval \/ QueueOperation
    \/ SenderStarts \/ SenderReports \/ ServerRefuses

LEMMA EnvironmentParts ==
    Environment => Supervises \/ Wakes \/ BeginRemove \/ EnterDemo
<1>1. RemoveAccount => command.remove = "checked" \/ command.remove = "removed"
  BY DEF RemoveAccount
<1> QED
  BY <1>1 DEF Environment, Supervises, Wakes, Commands

LEMMA LeavesOutcomes ==
    ASSUME TypeInv, BeginRemove \/ EnterDemo
    PROVE  /\ RuntimeTypeOK' /\ NoLogin(supervisors, supervisors')
           /\ Leaves /\ current' = 0
<1>1. TypeOK /\ RuntimeTypeOK /\ WorldTypeOK
  BY TypeParts DEF TypeInv
<1>2. {"removing", "stopped"} \subseteq State
  BY DEF State
<1>3. CASE BeginRemove
  <2>1. command'.remove = "begun" /\ StopAccount(supervisors, "removing")
    BY <1>1, <1>3 DEF BeginRemove, WorldTypeOK, Command
  <2> QED
    BY <1>1, <1>2, <1>3, <2>1, StopAccountStops, NoGenerationIsZero
    DEF RuntimeTypeOK, Leaves, Idle
<1>4. CASE EnterDemo
  <2>1. CASE current = 0
    BY <1>1, <1>4, <2>1
    DEF EnterDemo, RuntimeTypeOK, NoLogin, Leaves, runtimeUnchanged
  <2>2. CASE current # 0
    BY <1>1, <1>2, <1>4, <2>2, StopAccountStops, NoGenerationIsZero
    DEF EnterDemo, RuntimeTypeOK, Leaves
  <2> QED
    BY <2>1, <2>2
<1> QED
  BY <1>3, <1>4

LEMMA WakesOutcomes ==
    ASSUME TypeInv, Wakes
    PROVE  RuntimeTypeOK' /\ StaysInRegistry /\ UNCHANGED <<started, demo>>
<1>1. TypeOK /\ RuntimeTypeOK
  BY TypeParts DEF TypeInv
<1>2. ASSUME UNCHANGED <<current, supervisors>>, state' \in State
      PROVE  RuntimeTypeOK' /\ StaysInRegistry
  BY <1>1, <1>2 DEF RuntimeTypeOK, StaysInRegistry, Nudged
<1>3. ASSUME UNCHANGED current, state' \in State,
             supervisors' = Requested(supervisors)
      PROVE  RuntimeTypeOK' /\ StaysInRegistry
  BY <1>1, <1>3, RequestingStays DEF RuntimeTypeOK
<1>4. ASSUME UNCHANGED current, state' \in State, current # 0,
             \/ supervisors' = [supervisors EXCEPT ![current].sync_wake = TRUE]
             \/ supervisors' = [supervisors EXCEPT
                                   ![current].sync_wake = TRUE,
                                   ![current].operations_wake = TRUE]
             \/ supervisors' = [supervisors EXCEPT
                                   ![current].sync_wake = TRUE,
                                   ![current].manual_sync_requested = TRUE]
      PROVE  RuntimeTypeOK' /\ StaysInRegistry
  BY <1>1, <1>4, WakingStays DEF RuntimeTypeOK
<1>5. state \in State /\ "retrying" \in State /\ "reauth_required" \in State
  BY <1>1 DEF RuntimeTypeOK, State
<1>6. UNCHANGED <<started, demo>>
  BY DEF Wakes, AddAccount, UpdateAccount, RemovalAllowed, RemoveAccount,
         SyncNow, SetSyncInterval, QueueOperation, SenderStarts, SenderReports,
         ServerRefuses
<1>7. CASE \/ AddAccount \/ UpdateAccount \/ RemovalAllowed
           \/ RemoveAccount /\ command.remove = "checked"
           \/ SenderStarts \/ ServerRefuses
  BY <1>2, <1>5, <1>6, <1>7
  DEF AddAccount, UpdateAccount, RemovalAllowed, RemoveAccount, SenderStarts,
      ServerRefuses, runtimeUnchanged
<1>8. CASE SyncNow
  <2>1. supervisors' = [supervisors EXCEPT ![current].sync_wake = TRUE,
                            ![current].manual_sync_requested = TRUE]
    BY <1>1, <1>8 DEF SyncNow, RuntimeTypeOK, Supervisors
  <2> QED
    BY <1>4, <1>5, <1>6, <1>8, <2>1 DEF SyncNow
<1>9. CASE SetSyncInterval
  BY <1>2, <1>4, <1>5, <1>6, <1>9 DEF SetSyncInterval
<1>10. CASE QueueOperation
  BY <1>3, <1>5, <1>6, <1>10 DEF QueueOperation
<1>11. CASE SenderReports
  BY <1>2, <1>3, <1>4, <1>5, <1>6, <1>11 DEF SenderReports
<1> QED
  BY <1>7, <1>8, <1>9, <1>10, <1>11 DEF Wakes

LEMMA EnvironmentIsTyped ==
    ASSUME TypeInv, Environment
    PROVE  TypeInv'
<1>1. WorldTypeOK'
  BY EnvironmentKeepsTheWorld
<1>2. RuntimeTypeOK' /\ NoLogin(supervisors, supervisors')
  BY EnvironmentParts, SupervisesOutcomes, LeavesOutcomes, WakesOutcomes,
     NudgedIsNoLogin
<1>3. LoginHasVersion'
  BY <1>2, NoLoginKeepsVersions DEF TypeInv
<1>4. TypeOK' <=> WorldTypeOK' /\ RuntimeTypeOK'
  BY DEF TypeOK, WorldTypeOK, RuntimeTypeOK, Supervisors, Waiting, Command
<1> QED
  BY <1>1, <1>2, <1>3, <1>4 DEF TypeInv

LEMMA NextType == TypeInv /\ [Next]_vars => TypeInv'
<1> SUFFICES ASSUME TypeInv, [Next]_vars PROVE TypeInv'
  OBVIOUS
<1>1. CASE UNCHANGED vars
  BY <1>1 DEF vars, TypeInv, TypeOK, LoginHasVersion, SyncAt
<1> QED
  BY <1>1, SyncLoopIsTyped, OpsLoopIsTyped, EnvironmentIsTyped
  DEF Next, Environment

\* The state of the runtime stays in its types: above all, a login that ends is
\* one that began with a version of the configuration.
THEOREM TypeCorrect == Spec => []TypeOK
<1>1. TypeInv => TypeOK
  BY DEF TypeInv
<1> QED
  BY <1>1, InitType, NextType, PTL DEF Spec

-----------------------------------------------------------------------------
(* What a step of a synchronization loop leaves in the registry *)

\* The loop of the registry, where it rests and what it knows then.
Arrives(g) ==
    LET s == supervisors'[g] IN
    \/ s.sync = "parked" /\ configured /\ state' = "reauth_required"
    \/ s.sync \in {"queued", "opening"}
    \/ s.sync = "interval" /\ s.startup_sync_attempted
    \/ s.sync = "waiting" /\ SyncAt(g, "interval") /\ s.every = interval
    \/ s.sync = "login" /\ s.syncWith = version
LoggedIn(g) == SyncAt(g, "login") /\ supervisors[g].syncWith \in tried'
KeepsRequests(s, t) ==
    /\ t.ops = s.ops
    /\ s.operations_wake => t.operations_wake
    /\ s.pending_operations_requested => t.pending_operations_requested
Proceeds(g) ==
    /\ KeepsRequests(supervisors[g], supervisors'[g])
    /\ Arrives(g)
    /\ \/ supervisors'[g].startup_sync_attempted
            = supervisors[g].startup_sync_attempted
       \/ LoggedIn(g)
StateIsOf(g) ==
    \/ state' \in {state, "syncing"}
    \/ /\ g = current /\ SyncAt(g, "login") /\ LoggedIn(g)
       /\ state' \in Answers(supervisors[g].syncWith)

LEMMA GoingOnProceeds ==
    ASSUME NEW g \in Generation, NEW sups \in Supervisors, NEW now,
           GoesOn(g, sups, now), supervisors' \in Supervisors,
           KeepsRequests(supervisors[g], sups[g]),
           \/ sups[g].startup_sync_attempted
                 = supervisors[g].startup_sync_attempted
           \/ LoggedIn(g)
    PROVE  Proceeds(g)
<1>1. /\ sups[g] \in AccountSupervisor /\ g # 0
      /\ supervisors'[g] = [sups[g] EXCEPT !.sync = supervisors'[g].sync]
      /\ configured /\ state' = now
  BY NoGenerationIsZero DEF GoesOn, Supervisors
<1>2. /\ supervisors'[g].ops = sups[g].ops
      /\ supervisors'[g].operations_wake = sups[g].operations_wake
      /\ supervisors'[g].pending_operations_requested
            = sups[g].pending_operations_requested
      /\ supervisors'[g].startup_sync_attempted = sups[g].startup_sync_attempted
  BY <1>1 DEF AccountSupervisor
<1>3. Arrives(g)
  BY <1>1, <1>2 DEF GoesOn, Arrives
<1> QED
  BY <1>2, <1>3 DEF Proceeds, KeepsRequests

LEMMA SyncLoopOutcomes ==
    ASSUME TypeInv, NEW g \in Generation, SyncLoop(g)
    PROVE  /\ UNCHANGED <<account, outside, operation>> /\ tried \subseteq tried'
           /\ \/ StopsGone
              \/ /\ UNCHANGED current /\ StateIsOf(g)
                 /\ \A h \in Generation \ {g} : supervisors'[h] = supervisors[h]
                 /\ g = current => Proceeds(g)
<1>0. /\ TypeOK /\ supervisors \in Supervisors /\ state \in State
      /\ supervisors[g] \in AccountSupervisor /\ g # 0
      /\ supervisors' \in Supervisors
  BY SyncLoopIsTyped, NoGenerationIsZero DEF TypeInv, TypeOK, Supervisors
<1>1. CASE LoopStarts(g)
  <2>1. Iterate(g, Started(g), state)
    BY <1>1 DEF LoopStarts, Started
  <2>2. KeepsRequests(supervisors[g], Started(g)[g])
    BY <1>0, FlagsAreTyped DEF SameWork, KeepsRequests
  <2>3. UNCHANGED <<account, outside, operation, tried>>
    BY <1>1 DEF LoopStarts
  <2>4. CASE StopsGone
    BY <2>3, <2>4
  <2>5. CASE EndsReplaced(g, Started(g), state)
    BY <1>0, <2>1, <2>3, <2>5, FlagsAreTyped, IterateOutcomes
    DEF EndsReplaced, StateIsOf, StopsGone
  <2>6. CASE GoesOn(g, Started(g), state)
    <3>1. Proceeds(g)
      BY <1>0, <2>1, <2>2, <2>6, FlagsAreTyped, IterateOutcomes,
         GoingOnProceeds DEF SameWork
    <3> QED
      BY <1>0, <2>1, <2>3, <2>6, <3>1, FlagsAreTyped, IterateOutcomes
      DEF GoesOn, StateIsOf
  <2> QED
    BY <1>0, <2>1, <2>4, <2>5, <2>6, FlagsAreTyped, IterateOutcomes
<1>2. CASE ReadInterval(g)
  <2>1. /\ supervisors' = [supervisors EXCEPT ![g].sync = "waiting",
                                              ![g].every = interval]
        /\ SyncAt(g, "interval") /\ UNCHANGED <<current, state>>
        /\ UNCHANGED <<account, outside, operation, tried>>
    BY <1>2 DEF ReadInterval
  <2>2. /\ supervisors'[g] = [supervisors[g] EXCEPT !.sync = "waiting",
                                                    !.every = interval]
        /\ \A h \in Generation \ {g} : supervisors'[h] = supervisors[h]
    BY <1>0, <2>1 DEF Supervisors
  <2>3. Proceeds(g)
    <3>1. /\ supervisors'[g].sync = "waiting" /\ supervisors'[g].every = interval
          /\ KeepsRequests(supervisors[g], supervisors'[g])
          /\ supervisors'[g].startup_sync_attempted
                = supervisors[g].startup_sync_attempted
      BY <1>0, <2>2 DEF AccountSupervisor, KeepsRequests
    <3> QED
      BY <2>1, <3>1 DEF Proceeds, Arrives
  <2> QED
    BY <2>1, <2>2, <2>3 DEF StateIsOf
<1>3. ASSUME NEW wake \in {"requested", "periodic"}, WaitEnds(g, wake)
      PROVE  /\ UNCHANGED <<account, outside, operation, tried>>
             /\ \/ StopsGone
                \/ /\ UNCHANGED current /\ StateIsOf(g)
                   /\ \A h \in Generation \ {g} : supervisors'[h] = supervisors[h]
                   /\ g = current => Proceeds(g)
  <2>0. UNCHANGED <<account, outside, operation, tried>>
    BY <1>3 DEF WaitEnds
  <2>1. /\ Wakened(g, wake) \in Supervisors
        /\ KeepsRequests(supervisors[g], Wakened(g, wake)[g])
        /\ Wakened(g, wake)[g].startup_sync_attempted
              = supervisors[g].startup_sync_attempted
        /\ \A h \in Generation \ {g} : Wakened(g, wake)[h] = supervisors[h]
    BY <1>0, FlagsAreTyped DEF SameWork, KeepsRequests
  <2>2. CASE EnterSync(g, Wakened(g, wake)) /\ UNCHANGED <<current, state>>
    <3>1. supervisors' = [Wakened(g, wake) EXCEPT ![g].sync = "queued"]
      BY <2>2 DEF EnterSync
    <3>2. /\ supervisors'[g] = [Wakened(g, wake)[g] EXCEPT !.sync = "queued"]
          /\ Wakened(g, wake)[g] \in AccountSupervisor
          /\ \A h \in Generation \ {g} : supervisors'[h] = supervisors[h]
      BY <2>1, <3>1 DEF Supervisors
    <3>3. Proceeds(g)
      BY <2>1, <3>2 DEF Proceeds, KeepsRequests, Arrives, AccountSupervisor
    <3> QED
      BY <2>0, <2>2, <3>2, <3>3 DEF StateIsOf
  <2>3. CASE Iterate(g, Wakened(g, wake), state)
    <3>1. \/ StopsGone \/ EndsReplaced(g, Wakened(g, wake), state)
          \/ GoesOn(g, Wakened(g, wake), state)
      BY <1>0, <2>1, <2>3, IterateOutcomes
    <3>2. ASSUME GoesOn(g, Wakened(g, wake), state)
          PROVE  Proceeds(g)
      BY <1>0, <2>1, <3>2, GoingOnProceeds
    <3> QED
      BY <2>0, <2>1, <3>1, <3>2 DEF EndsReplaced, GoesOn, StateIsOf
  <2> QED
    BY <1>3, <2>2, <2>3 DEF WaitEnds, Wakened
<1>4. CASE SyncGranted(g)
  <2>0. UNCHANGED <<account, outside, operation, tried>>
    BY <1>4 DEF SyncGranted
  <2>1. CASE /\ supervisors' = [supervisors EXCEPT ![g].sync = "opening"]
             /\ UNCHANGED <<current, state>>
    <3>1. /\ supervisors'[g] = [supervisors[g] EXCEPT !.sync = "opening"]
          /\ \A h \in Generation \ {g} : supervisors'[h] = supervisors[h]
      BY <1>0, <2>1 DEF Supervisors
    <3>2. Proceeds(g)
      BY <1>0, <3>1 DEF Proceeds, KeepsRequests, Arrives, AccountSupervisor
    <3> QED
      BY <2>0, <2>1, <3>1, <3>2 DEF StateIsOf
  <2>2. CASE ~configured /\ is_current_supervisor(g)
    BY <1>4, <2>0, <2>2 DEF SyncGranted, StopAccount, StopsGone
  <2>3. CASE ~configured /\ ~is_current_supervisor(g)
    BY <1>0, <1>4, <2>0, <2>3, SyncEndsIsTyped
    DEF SyncGranted, StateIsOf, is_current_supervisor
  <2> QED
    BY <1>4, <2>1, <2>2, <2>3 DEF SyncGranted
<1>5. ASSUME NEW result \in State, Conclude(g, result),
             UNCHANGED <<account, outside, operation>>, tried \subseteq tried',
             \/ ~configured
             \/ SyncAt(g, "login") /\ result \in Answers(supervisors[g].syncWith)
                /\ LoggedIn(g)
      PROVE  /\ UNCHANGED <<account, outside, operation>> /\ tried \subseteq tried'
             /\ \/ StopsGone
                \/ /\ UNCHANGED current /\ StateIsOf(g)
                   /\ \A h \in Generation \ {g} : supervisors'[h] = supervisors[h]
                   /\ g = current => Proceeds(g)
  <2>1. \/ StopsGone \/ EndsReplaced(g, supervisors, state)
        \/ GoesOn(g, AfterSync(g), result)
    BY <1>0, <1>5, ConcludeIsTyped
  <2>2. CASE GoesOn(g, AfterSync(g), result)
    <3>1. g = current /\ LoggedIn(g) /\ result \in Answers(supervisors[g].syncWith)
      BY <1>5, <2>2 DEF GoesOn
    <3>2. KeepsRequests(supervisors[g], AfterSync(g)[g])
      BY <1>0, <3>1, AfterSyncIsTyped DEF KeepsRequests
    <3>3. Proceeds(g)
      BY <1>0, <2>2, <3>1, <3>2, AfterSyncIsTyped, GoingOnProceeds
    <3>4. \A h \in Generation \ {g} : AfterSync(g)[h] = supervisors[h]
      BY <1>0, <3>1, RequestedIsTyped, NoGenerationIsZero
      DEF AfterSync, Supervisors
    <3> QED
      BY <1>5, <2>2, <3>1, <3>3, <3>4 DEF GoesOn, StateIsOf, LoggedIn
  <2> QED
    BY <1>5, <2>1, <2>2 DEF EndsReplaced, StateIsOf
<1>6. CASE StartSyncing(g)
  <2>1. CASE /\ state' = "syncing" /\ UNCHANGED current
             /\ supervisors' = [supervisors EXCEPT ![g].sync = "login",
                                                   ![g].syncWith = version]
    <3>1. /\ supervisors'[g] = [supervisors[g] EXCEPT !.sync = "login",
                                                      !.syncWith = version]
          /\ \A h \in Generation \ {g} : supervisors'[h] = supervisors[h]
      BY <1>0, <2>1 DEF Supervisors
    <3>2. Proceeds(g)
      BY <1>0, <3>1 DEF Proceeds, KeepsRequests, Arrives, AccountSupervisor
    <3> QED
      BY <1>6, <2>1, <3>1, <3>2 DEF StartSyncing, StateIsOf
  <2>2. CASE ~configured /\ Conclude(g, "offline")
    <3>1. "offline" \in State
      BY DEF State
    <3> QED
      BY <1>5, <1>6, <2>2, <3>1 DEF StartSyncing
  <2> QED
    BY <1>6, <2>1, <2>2 DEF StartSyncing
<1>7. ASSUME NEW result \in State, SyncReturns(g, result)
      PROVE  /\ UNCHANGED <<account, outside, operation>> /\ tried \subseteq tried'
             /\ \/ StopsGone
                \/ /\ UNCHANGED current /\ StateIsOf(g)
                   /\ \A h \in Generation \ {g} : supervisors'[h] = supervisors[h]
                   /\ g = current => Proceeds(g)
  <2>1. /\ SyncAt(g, "login") /\ LoggedIn(g) /\ tried \subseteq tried'
        /\ result \in Answers(supervisors[g].syncWith)
        /\ Conclude(g, result) /\ UNCHANGED <<account, outside, operation>>
    BY <1>7 DEF SyncReturns, LoggedIn
  <2> QED
    BY <1>5, <2>1
<1> QED
  BY <1>1, <1>2, <1>3, <1>4, <1>6, <1>7 DEF SyncLoop

-----------------------------------------------------------------------------
(* The registry and the schedule *)

DemoIsStopped == demo => ~started
GoneIsBeingRemoved == ~configured /\ current # 0 => command.remove = "removed"
RegistryInv == /\ TypeInv /\ DemoIsStopped /\ GoneIsBeingRemoved
               /\ ConfiguredIsSupervised

LEMMA InitRegistry == Init => RegistryInv
<1> SUFFICES ASSUME Init PROVE RegistryInv
  OBVIOUS
<1> QED
  BY InitType
  DEF Init, RegistryInv, DemoIsStopped, GoneIsBeingRemoved,
      ConfiguredIsSupervised

\* What the steps do with the commands.
LEMMA SupervisesCommands ==
    ASSUME TypeInv, Supervises
    PROVE  /\ Start => ~demo /\ command' = command
           /\ command'.update = "idle" => command.update = "idle" \/ Restarts
  BY DEF Supervises, Restarts, Start, AddReconciles, UpdateRestarts,
         RemovalFails, OtherReconciles, RemoveAccount, outside, TypeInv, TypeOK

LEMMA WakesCommands ==
    ASSUME TypeInv, Wakes
    PROVE  \/ UNCHANGED <<configured, command>>
           \/ /\ ~Idle'
              /\ command'.update = "idle" => command.update = "idle"
              /\ \/ configured'
                 \/ command'.remove = "removed"
                 \/ UNCHANGED configured /\ command.remove = "begun"
<1>0. command \in Command
  BY TypeParts DEF TypeInv, WorldTypeOK
<1>5. Idle' => /\ command'.update = "idle" /\ command'.add = "idle"
                /\ command'.remove = "idle"
  BY DEF Idle
<1>1. CASE AddAccount \/ UpdateAccount
  <2>1. \/ command' = [command EXCEPT !.add = "saved"]
        \/ command' = [command EXCEPT !.update = "saved"]
    BY <1>1 DEF AddAccount, UpdateAccount
  <2>2. /\ command'.add = "saved" \/ command'.update = "saved"
        /\ command'.update = "idle" => command.update = "idle"
    BY <1>0, <2>1 DEF Command
  <2>3. configured'
    BY <1>1 DEF AddAccount, UpdateAccount
  <2> QED
    BY <1>5, <2>2, <2>3
<1>2. CASE RemovalAllowed
  <2>1. /\ command' = [command EXCEPT !.remove = "checked"]
        /\ UNCHANGED configured /\ command.remove = "begun"
    BY <1>2 DEF RemovalAllowed, account
  <2>2. command'.remove = "checked" /\ command'.update = command.update
    BY <1>0, <2>1 DEF Command
  <2> QED
    BY <1>5, <2>1, <2>2
<1>3. CASE RemoveAccount /\ command.remove = "checked"
  <2>1. command' = [command EXCEPT !.remove = "removed"]
    BY <1>3 DEF RemoveAccount
  <2>2. command'.remove = "removed" /\ command'.update = command.update
    BY <1>0, <2>1 DEF Command
  <2> QED
    BY <1>5, <2>2
<1>4. CASE \/ SyncNow \/ SetSyncInterval \/ QueueOperation
           \/ SenderStarts \/ SenderReports \/ ServerRefuses
  BY <1>4 DEF SyncNow, SetSyncInterval, QueueOperation, SenderStarts,
              SenderReports, ServerRefuses, account
<1> QED
  BY <1>1, <1>2, <1>3, <1>4 DEF Wakes

LEMMA NextRegistry == RegistryInv /\ [Next]_vars => RegistryInv'
<1> SUFFICES ASSUME RegistryInv, [Next]_vars PROVE RegistryInv'
  OBVIOUS
<1> USE DEF RegistryInv
<1>0. TypeInv'
  BY NextType
<1>1. ASSUME UNCHANGED <<account, outside>>,
             current' = current \/ StopsGone
      PROVE  RegistryInv'
  BY <1>0, <1>1
  DEF account, outside, StopsGone, DemoIsStopped, GoneIsBeingRemoved,
      ConfiguredIsSupervised, Idle
<1>2. ASSUME NEW g \in Generation, SyncLoop(g)
      PROVE  RegistryInv'
  BY <1>1, <1>2, SyncLoopOutcomes
<1>3. ASSUME NEW g \in Generation, OpsLoop(g)
      PROVE  RegistryInv'
  BY <1>1, <1>3, OpsLoopOutcomes DEF opsUnchanged, TypeInv
<1>4. CASE Supervises
  <2>1. DemoIsStopped'
    BY <1>4, SupervisesOutcomes, SupervisesCommands DEF DemoIsStopped
  <2>2. CASE UNCHANGED current /\ (Start \/ configured \/ current = 0)
    <3>1. current # 0 \/ demo \/ ~configured \/ ~started'
      BY <1>4, <2>2, SupervisesOutcomes, NoGenerationIsZero
      DEF Renewed, StaysInRegistry
    <3> QED
      BY <1>0, <1>4, <2>1, <2>2, <3>1, SupervisesOutcomes, SupervisesCommands
      DEF GoneIsBeingRemoved, ConfiguredIsSupervised, DemoIsStopped
  <2>3. CASE current' = 0 /\ (demo \/ ~configured \/ ~started')
    BY <1>0, <1>4, <2>1, <2>3, SupervisesOutcomes
    DEF GoneIsBeingRemoved, ConfiguredIsSupervised, DemoIsStopped
  <2>4. CASE Renewed(configured, started')
    BY <1>0, <1>4, <2>1, <2>4, SupervisesOutcomes, NoGenerationIsZero
    DEF GoneIsBeingRemoved, ConfiguredIsSupervised, Renewed
  <2> QED
    BY <1>4, <2>2, <2>3, <2>4, SupervisesOutcomes DEF StaysInRegistry
<1>5. CASE Wakes
  <2>1. UNCHANGED <<current, started, demo>>
    BY <1>5, WakesOutcomes DEF StaysInRegistry
  <2> QED
    BY <1>0, <1>5, <2>1, WakesCommands
    DEF DemoIsStopped, GoneIsBeingRemoved, ConfiguredIsSupervised, Idle
<1>6. CASE BeginRemove \/ EnterDemo
  <2>1. current' = 0 /\ Leaves
    BY <1>6, LeavesOutcomes
  <2>2. demo' => ~started'
    BY <1>6, <2>1
    DEF Leaves, BeginRemove, EnterDemo, DemoIsStopped
  <2> QED
    BY <1>0, <2>1, <2>2
    DEF Leaves, DemoIsStopped, GoneIsBeingRemoved, ConfiguredIsSupervised
<1>7. CASE UNCHANGED vars
  BY <1>1, <1>7 DEF vars, account, outside
<1> QED
  BY <1>2, <1>3, <1>4, <1>5, <1>6, <1>7, EnvironmentParts DEF Next, Environment

\* A configured account has its supervisor while no command is under way,
\* whatever removal failed, update restarted or loop gave up before.
THEOREM AccountsAreSupervised == Spec => []ConfiguredIsSupervised
<1>1. RegistryInv => ConfiguredIsSupervised
  BY DEF RegistryInv
<1> QED
  BY <1>1, InitRegistry, NextRegistry, PTL DEF Spec

\* ScheduleIsFollowed speaks of the supervisor in the registry alone.
Scheduled ==
    current # 0 /\ supervisors[current].sync = "waiting"
    => supervisors[current].every = interval \/ supervisors[current].sync_wake

LEMMA ScheduleIsOfTheRegistry == TypeOK => (ScheduleIsFollowed <=> Scheduled)
  BY NoGenerationIsZero
  DEF TypeOK, ScheduleIsFollowed, Scheduled, is_current_supervisor, SyncAt

\* A new interval comes with a wake.
LEMMA NewIntervalWakes ==
    ASSUME TypeInv, Wakes
    PROVE  interval' = interval \/ current = 0 \/ supervisors'[current].sync_wake
<1>1. CASE SetSyncInterval
  <2>1. RuntimeTypeOK
    BY TypeParts DEF TypeInv
  <2> QED
    BY <1>1, <2>1, WakingStays DEF SetSyncInterval
<1>2. CASE ~SetSyncInterval
  BY <1>2 DEF Wakes, AddAccount, UpdateAccount, RemovalAllowed, RemoveAccount,
     SyncNow, QueueOperation, SenderStarts, SenderReports, ServerRefuses
<1> QED
  BY <1>1, <1>2

LEMMA NextScheduled == TypeInv /\ Scheduled /\ [Next]_vars => Scheduled'
<1> SUFFICES ASSUME TypeInv, Scheduled, [Next]_vars PROVE Scheduled'
  OBVIOUS
<1>0. \A h \in Generation : h # 0
  BY NoGenerationIsZero
<1>1. current # 0 => current \in Generation
  BY NoGenerationIsZero DEF TypeInv, TypeOK
<1>2. ASSUME NEW g \in Generation, SyncLoop(g)
      PROVE  Scheduled'
  <2>1. interval' = interval
    BY <1>2, SyncLoopOutcomes DEF outside
  <2>2. CASE StopsGone
    BY <2>2 DEF StopsGone, Scheduled
  <2>3. CASE g # current /\ UNCHANGED current /\ supervisors'[current] = supervisors[current]
    BY <2>1, <2>3 DEF Scheduled
  <2>4. CASE g = current /\ UNCHANGED current /\ Arrives(g)
    BY <2>1, <2>4 DEF Scheduled, Arrives
  <2> QED
    BY <1>1, <1>2, <2>2, <2>3, <2>4, SyncLoopOutcomes DEF Proceeds, Scheduled
<1>3. ASSUME NEW g \in Generation, OpsLoop(g)
      PROVE  Scheduled'
  BY <1>1, <1>3, OpsLoopOutcomes
  DEF opsUnchanged, outside, SyncUntouched, SameSync, Scheduled, TypeInv
<1>4. CASE Supervises
  <2>1. interval' = interval
    BY <1>4, SupervisesOutcomes
  <2>2. CASE StaysInRegistry /\ UNCHANGED supervisors
    BY <2>1, <2>2 DEF StaysInRegistry, Scheduled
  <2>3. CASE current' = 0
    BY <2>3 DEF Scheduled
  <2>4. CASE Renewed(configured, started')
    BY <2>4, NewSupervisorIsTyped DEF Renewed, Scheduled
  <2> QED
    BY <1>4, <2>2, <2>3, <2>4, SupervisesOutcomes
<1>5. CASE Wakes
  BY <1>1, <1>5, WakesOutcomes, NewIntervalWakes
  DEF StaysInRegistry, Nudged, Scheduled
<1>6. CASE BeginRemove \/ EnterDemo
  BY <1>6, LeavesOutcomes DEF Scheduled
<1>7. CASE UNCHANGED vars
  BY <1>7 DEF vars, Scheduled
<1> QED
  BY <1>2, <1>3, <1>4, <1>5, <1>6, <1>7, EnvironmentParts DEF Next, Environment

\* The loop waits by the interval in force or has a wake waiting for it: no
\* change of the interval is slept through.
THEOREM IntervalsAreFollowed == Spec => []ScheduleIsFollowed
<1>1. Init => TypeInv /\ Scheduled
  BY InitType DEF Init, Scheduled
<1>2. TypeInv /\ Scheduled /\ [Next]_vars => (TypeInv /\ Scheduled)'
  BY NextType, NextScheduled
<1>3. TypeInv /\ Scheduled => ScheduleIsFollowed
  BY ScheduleIsOfTheRegistry DEF TypeInv
<1> QED
  BY <1>1, <1>2, <1>3, PTL DEF Spec

-----------------------------------------------------------------------------
(* What was tried, and what is refused *)

\* While no update is under way, the supervisor of the registry knows the present
\* configuration: it logs in with it, the startup sync counts only when it was
\* tried, and an authentication error is about it.
Settled == current # 0 /\ command.update = "idle"
CurrentIsBorn == current # 0 => supervisors[current].sync # "none"
LoginIsPresent ==
    Settled /\ supervisors[current].sync = "login"
    => supervisors[current].syncWith = version
StartupTried ==
    Settled /\ (\/ supervisors[current].startup_sync_attempted
                \/ supervisors[current].sync \in {"interval", "waiting"})
    => version \in tried
ParkedIsKnown ==
    Settled /\ supervisors[current].sync = "parked"
    => version \in tried \/ version \notin accepted
ErrorIsPresent ==
    Settled /\ configured /\ state = "reauth_required" => version \notin accepted
TriedInv == /\ TypeInv /\ CurrentIsBorn /\ LoginIsPresent /\ StartupTried
            /\ ParkedIsKnown /\ ErrorIsPresent

\* No command or event brings an update to its end unnoticed, a version back or
\* an authentication error about an accepted password, unless a delivery reports
\* late.
LEMMA WakesInTime ==
    ASSUME TypeInv, CurrentIsBorn, Wakes, LateReports = FALSE,
           current # 0, command'.update = "idle"
    PROVE  /\ command.update = "idle" /\ (configured' => configured)
           /\ version' = version /\ accepted' \subseteq accepted
           /\ tried' = tried
           /\ \/ state' \in {state, "retrying"}
              \/ state' = "reauth_required" /\ version \notin accepted
<1>0. command \in Command /\ current \in Generation
  BY TypeParts, NoGenerationIsZero DEF TypeInv, WorldTypeOK, RuntimeTypeOK
<1>1. CASE AddAccount
  BY <1>0, <1>1 DEF AddAccount, Born, CurrentIsBorn
<1>2. CASE UpdateAccount
  <2>1. command' = [command EXCEPT !.update = "saved"]
    BY <1>2 DEF UpdateAccount
  <2> QED
    BY <1>0, <2>1 DEF Command
<1>3. CASE \/ RemovalAllowed
           \/ /\ RemoveAccount
              /\ command.remove = "checked"
  <2>1. /\ \/ command' = [command EXCEPT !.remove = "checked"]
           \/ command' = [command EXCEPT !.remove = "removed"]
        /\ configured' => configured
        /\ UNCHANGED <<version, accepted, state, tried>>
    BY <1>3 DEF RemovalAllowed, RemoveAccount, account, runtimeUnchanged
  <2>2. command'.update = command.update
    BY <1>0, <2>1 DEF Command
  <2> QED
    BY <2>1, <2>2
<1>4. CASE SyncNow \/ SetSyncInterval \/ QueueOperation \/ SenderStarts
  BY <1>4
  DEF SyncNow, SetSyncInterval, QueueOperation, SenderStarts, account,
      runtimeUnchanged
<1>5. CASE SenderReports
  BY <1>5 DEF SenderReports, account
<1>6. CASE ServerRefuses
  BY <1>6 DEF ServerRefuses, runtimeUnchanged
<1> QED
  BY <1>1, <1>2, <1>3, <1>4, <1>5, <1>6 DEF Wakes

LEMMA TriedBySyncLoop ==
    ASSUME TriedInv, NEW g \in Generation, SyncLoop(g)
    PROVE  TriedInv'
<1> USE DEF TriedInv
<1>0. TypeInv' /\ g # 0 /\ (current # 0 => current \in Generation)
  BY NextType, NoGenerationIsZero DEF Next, TypeInv, TypeOK
<1>1. /\ UNCHANGED <<configured, version, accepted, command>>
      /\ tried \subseteq tried'
  BY SyncLoopOutcomes DEF account, outside
<1>2. CASE current' = 0
  BY <1>0, <1>2
  DEF CurrentIsBorn, LoginIsPresent, StartupTried, ParkedIsKnown,
      ErrorIsPresent, Settled
<1>3. CASE UNCHANGED current /\ current # 0 /\ StateIsOf(g)
  <2>1. ErrorIsPresent'
    BY <1>0, <1>1, <1>3
    DEF StateIsOf, ErrorIsPresent, Settled, LoginIsPresent, SyncAt, Answers,
        handle_runtime_error
  <2>2. CASE g # current /\ supervisors'[current] = supervisors[current]
    BY <1>0, <1>1, <1>3, <2>1, <2>2
    DEF CurrentIsBorn, LoginIsPresent, StartupTried, ParkedIsKnown, Settled
  <2>3. CASE g = current /\ Proceeds(g)
    <3>1. CurrentIsBorn'
      BY <1>3, <2>3 DEF Proceeds, Arrives, CurrentIsBorn
    <3>2. LoginIsPresent'
      BY <1>1, <1>3, <2>3 DEF Proceeds, Arrives, LoginIsPresent
    <3>3. ParkedIsKnown'
      BY <1>1, <1>3, <2>1, <2>3
      DEF Proceeds, Arrives, ParkedIsKnown, ErrorIsPresent, Settled
    <3>4. Settled /\ supervisors'[g].startup_sync_attempted => version \in tried'
      BY <1>1, <1>3, <2>3
      DEF Proceeds, LoggedIn, SyncAt, StartupTried, LoginIsPresent
    <3>5. StartupTried'
      BY <1>1, <1>3, <2>3, <3>4
      DEF Proceeds, Arrives, SyncAt, StartupTried, Settled
    <3> QED
      BY <1>0, <2>1, <3>1, <3>2, <3>3, <3>5
  <2> QED
    BY <1>0, <1>3, <2>2, <2>3, SyncLoopOutcomes DEF StopsGone
<1> QED
  BY <1>2, <1>3, SyncLoopOutcomes DEF StopsGone

LEMMA NextTried ==
    ASSUME LateReports = FALSE
    PROVE  TriedInv /\ [Next]_vars => TriedInv'
<1> SUFFICES ASSUME TriedInv, [Next]_vars PROVE TriedInv'
  OBVIOUS
<1> USE DEF TriedInv
<1>0. TypeInv' /\ (current # 0 => current \in Generation)
  BY NextType, NoGenerationIsZero DEF TypeInv, TypeOK
<1>1. CASE current' = 0
  BY <1>0, <1>1
  DEF CurrentIsBorn, LoginIsPresent, StartupTried, ParkedIsKnown,
      ErrorIsPresent, Settled
<1>2. ASSUME current' = current, current # 0,
             \/ command'.update # "idle"
             \/ /\ command.update = "idle" /\ (configured' => configured)
                /\ version' = version /\ accepted' \subseteq accepted
                /\ tried' = tried
                /\ \/ state' \in {state, "retrying"}
                   \/ state' = "reauth_required" /\ version \notin accepted,
             supervisors'[current].sync = supervisors[current].sync,
             supervisors'[current].syncWith = supervisors[current].syncWith,
             supervisors'[current].startup_sync_attempted
                = supervisors[current].startup_sync_attempted
      PROVE  TriedInv'
  BY <1>0, <1>2
  DEF CurrentIsBorn, LoginIsPresent, StartupTried, ParkedIsKnown,
      ErrorIsPresent, Settled
<1>3. ASSUME NEW g \in Generation, OpsLoop(g)
      PROVE  TriedInv'
  BY <1>0, <1>1, <1>2, <1>3, OpsLoopOutcomes
  DEF opsUnchanged, account, outside, SyncUntouched, SameSync, TypeInv
<1>4. CASE Supervises
  <2>1. UNCHANGED <<configured, version, accepted, tried>>
    BY <1>4, SupervisesOutcomes
  <2>2. CASE StaysInRegistry /\ UNCHANGED <<supervisors, state>> /\ ~Restarts
    <3>1. command'.update = "idle" => command.update = "idle"
      BY <1>4, <2>2, SupervisesCommands
    <3>2. current' = current /\ (current # 0 => TriedInv')
      BY <1>2, <2>1, <2>2, <3>1 DEF StaysInRegistry
    <3> QED
      BY <1>1, <3>2
  <2>3. CASE Renewed(configured, started')
    BY <1>0, <2>3, NewSupervisorIsTyped
    DEF Renewed, CurrentIsBorn, LoginIsPresent, StartupTried, ParkedIsKnown,
        ErrorIsPresent, Settled
  <2> QED
    BY <1>1, <1>4, <2>2, <2>3, SupervisesOutcomes
<1>5. CASE Wakes
  <2>1. StaysInRegistry
    BY <1>5, WakesOutcomes
  <2>2. CASE current # 0
    BY <1>0, <1>2, <1>5, <2>1, <2>2, WakesInTime DEF StaysInRegistry, Nudged
  <2> QED
    BY <1>1, <2>1, <2>2 DEF StaysInRegistry
<1>6. CASE BeginRemove \/ EnterDemo
  BY <1>1, <1>6, LeavesOutcomes
<1>7. CASE UNCHANGED vars
  BY <1>0, <1>7
  DEF vars, CurrentIsBorn, LoginIsPresent, StartupTried, ParkedIsKnown,
      ErrorIsPresent, Settled
<1> QED
  BY <1>3, <1>4, <1>5, <1>6, <1>7, TriedBySyncLoop, EnvironmentParts
  DEF Next, Environment

LEMMA InitTried == Init => TriedInv
  BY InitType
  DEF Init, TriedInv, CurrentIsBorn, LoginIsPresent, StartupTried,
      ParkedIsKnown, ErrorIsPresent, Settled

\* Whatever loop of an older configuration was under way when a new one was
\* stored, the loop rests only when that was tried or is refused.  A delivery that
\* reports late is excluded: LateReports shows what it would do.
THEOREM ConfigurationsAreTried ==
    ASSUME LateReports = FALSE
    PROVE  Spec => []ConfigurationIsTried
<1>1. TriedInv => ConfigurationIsTried
  <2> SUFFICES ASSUME TriedInv, NEW g \in Generation,
                      is_current_supervisor(g), Idle,
                      SyncAt(g, "parked") \/ SyncAt(g, "interval")
                      \/ SyncAt(g, "waiting")
               PROVE  version \in tried \/ version \notin accepted
    BY DEF ConfigurationIsTried
  <2>1. current = g /\ current # 0 /\ command.update = "idle"
    BY NoGenerationIsZero DEF is_current_supervisor, Idle
  <2> QED
    BY <2>1 DEF TriedInv, StartupTried, ParkedIsKnown, Settled, SyncAt
<1>2. TriedInv /\ [Next]_vars => TriedInv'
  BY NextTried
<1> QED
  BY <1>1, <1>2, InitTried, PTL DEF Spec

\* While the supervisor of the registry is told of a queued operation, or takes
\* it at its next claim, none is forgotten; what rests beside one was refused.
QueuedIsKnown ==
    current # 0 /\ configured /\ operation = "queued"
    => \/ supervisors[current].pending_operations_requested
       \/ supervisors[current].ops \in {"queued", "claim"}
RestIsRefused ==
    /\ Settled /\ configured /\ operation = "queued"
    /\ supervisors[current].ops = "parked"
    /\ ~supervisors[current].operations_wake
    => version \notin accepted
TakenInv == TriedInv /\ RegistryInv /\ QueuedIsKnown /\ RestIsRefused

\* An operation is queued together with its request.
LEMMA QueuingRequests ==
    ASSUME TypeInv, CurrentIsBorn, Wakes, current # 0, configured'
    PROVE  /\ configured
           /\ \/ operation' = "queued" => operation = "queued"
              \/ /\ supervisors'[current].operations_wake
                 /\ supervisors'[current].pending_operations_requested
<1>0. current \in Generation /\ RuntimeTypeOK
  BY TypeParts, NoGenerationIsZero DEF TypeInv, RuntimeTypeOK
<1>1. CASE AddAccount
  BY <1>0, <1>1 DEF AddAccount, Born, CurrentIsBorn
<1>2. CASE \/ UpdateAccount \/ RemovalAllowed \/ SyncNow \/ SetSyncInterval
           \/ SenderStarts \/ ServerRefuses
           \/ /\ RemoveAccount
              /\ command.remove = "checked"
  BY <1>2
  DEF UpdateAccount, RemovalAllowed, RemoveAccount, SyncNow, SetSyncInterval,
      SenderStarts, ServerRefuses, account
<1>3. CASE QueueOperation
  BY <1>0, <1>3, RequestingStays DEF QueueOperation
<1>4. CASE SenderReports
  <2>1. configured' = configured /\ current' = current
    BY <1>4 DEF SenderReports, account
  <2>2. \/ operation' = "queued" => operation = "queued"
        \/ supervisors' = Requested(supervisors)
    BY <1>4, <2>1 DEF SenderReports
  <2> QED
    BY <1>0, <2>1, <2>2, RequestingStays
<1> QED
  BY <1>1, <1>2, <1>3, <1>4 DEF Wakes

LEMMA TakenByOpsLoop ==
    ASSUME TakenInv, NEW g \in Generation, OpsLoop(g)
    PROVE  QueuedIsKnown' /\ RestIsRefused'
<1>0. /\ TypeOK /\ supervisors \in Supervisors /\ current \in 0 .. MaxGeneration
      /\ g # 0 /\ (current # 0 => current \in Generation)
  BY NoGenerationIsZero
  DEF TakenInv, TriedInv, TypeInv, TypeOK, Supervisors
<1>1. /\ UNCHANGED <<configured, version, accepted, command, current, state>>
      /\ operation' = "queued" => operation = "queued"
      /\ \A h \in Generation \ {g} : supervisors'[h] = supervisors[h]
  BY <1>0, OpsLoopOutcomes DEF opsUnchanged, account, outside
<1>2. CASE ~(current # 0 /\ configured /\ operation' = "queued")
  BY <1>1, <1>2 DEF QueuedIsKnown, RestIsRefused, Settled
<1>3. CASE g # current /\ current # 0
  BY <1>0, <1>1, <1>3 DEF TakenInv, QueuedIsKnown, RestIsRefused, Settled
<1>4. CASE g = current /\ configured /\ operation' = "queued"
  <2>1. CASE supervisors'[g].ops \in {"queued", "claim"}
    BY <1>1, <1>4, <2>1 DEF QueuedIsKnown, RestIsRefused
  <2>2. CASE /\ Parks(g, OpsStarted(g))
             /\ supervisors[g].ops \notin {"queued", "claim"}
    <3>1. supervisors[g].pending_operations_requested
      BY <1>0, <1>1, <1>4, <2>2 DEF TakenInv, QueuedIsKnown
    <3>2. OpsStarted(g)[g].pending_operations_requested
      BY <1>0, <3>1 DEF OpsStarted, Supervisors, AccountSupervisor
    <3>3. /\ supervisors'[g].pending_operations_requested
          /\ state = "reauth_required"
      BY <2>2, <3>2 DEF Parks
    <3> QED
      BY <1>1, <1>4, <3>3
      DEF TakenInv, TriedInv, ErrorIsPresent, QueuedIsKnown, RestIsRefused,
          Settled
  <2> QED
    BY <1>0, <1>4, <2>1, <2>2, OpsLoopOutcomes
<1> QED
  BY <1>2, <1>3, <1>4

LEMMA NextTaken ==
    ASSUME LateReports = FALSE
    PROVE  TakenInv /\ [Next]_vars => TakenInv'
<1> SUFFICES ASSUME TakenInv, [Next]_vars
             PROVE  QueuedIsKnown' /\ RestIsRefused'
  BY NextTried, NextRegistry DEF TakenInv
<1>0. TypeInv /\ (current # 0 => current \in Generation)
  BY NoGenerationIsZero DEF TakenInv, TriedInv, TypeInv, TypeOK
<1>1. CASE current' = 0
  BY <1>1 DEF QueuedIsKnown, RestIsRefused, Settled
<1>2. ASSUME current' = current, current # 0, configured' => configured,
             command'.update = "idle" => /\ command.update = "idle"
                                         /\ version' = version
                                         /\ accepted' \subseteq accepted,
             supervisors'[current].ops = supervisors[current].ops,
             \/ configured' /\ operation' = "queued" => operation = "queued"
             \/ /\ supervisors'[current].operations_wake
                /\ supervisors'[current].pending_operations_requested,
             supervisors[current].operations_wake
             => supervisors'[current].operations_wake,
             supervisors[current].pending_operations_requested
             => supervisors'[current].pending_operations_requested
      PROVE  QueuedIsKnown' /\ RestIsRefused'
  BY <1>2 DEF TakenInv, QueuedIsKnown, RestIsRefused, Settled
<1>3. ASSUME NEW g \in Generation, SyncLoop(g)
      PROVE  QueuedIsKnown' /\ RestIsRefused'
  <2>1. UNCHANGED <<configured, version, accepted, command, operation>>
    BY <1>0, <1>3, SyncLoopOutcomes DEF account, outside
  <2>2. CASE /\ UNCHANGED current
             /\ \A h \in Generation \ {g} : supervisors'[h] = supervisors[h]
             /\ g = current => Proceeds(g)
    <3>1. CASE current # 0
      BY <1>0, <1>2, <2>1, <2>2, <3>1 DEF Proceeds, KeepsRequests
    <3> QED
      BY <1>1, <2>2, <3>1
  <2> QED
    BY <1>0, <1>1, <1>3, <2>2, SyncLoopOutcomes DEF StopsGone
<1>4. CASE Supervises
  <2>1. UNCHANGED <<configured, version, accepted, operation>>
    BY <1>0, <1>4, SupervisesOutcomes
  <2>2. CASE StaysInRegistry /\ UNCHANGED <<supervisors, state>> /\ ~Restarts
    <3>1. command'.update = "idle" => command.update = "idle"
      BY <1>0, <1>4, <2>2, SupervisesCommands
    <3>2. current' = current
      BY <2>2 DEF StaysInRegistry
    <3>3. CASE current # 0
      BY <1>2, <2>1, <2>2, <3>1, <3>2, <3>3
    <3> QED
      BY <1>1, <3>2, <3>3
  <2>3. CASE Renewed(configured, started')
    BY <2>3, NewSupervisorIsTyped DEF Renewed, QueuedIsKnown, RestIsRefused
  <2> QED
    BY <1>0, <1>1, <1>4, <2>2, <2>3, SupervisesOutcomes
<1>5. CASE Wakes
  <2>1. StaysInRegistry /\ CurrentIsBorn
    BY <1>0, <1>5, WakesOutcomes DEF TakenInv, TriedInv
  <2>2. CASE current # 0
    <3>1. current' = current /\ Nudged(supervisors[current], supervisors'[current])
      BY <1>0, <2>1, <2>2 DEF StaysInRegistry
    <3>2. \/ configured' /\ operation' = "queued" => operation = "queued"
          \/ /\ supervisors'[current].operations_wake
             /\ supervisors'[current].pending_operations_requested
      BY <1>0, <1>5, <2>1, <2>2, QueuingRequests
    <3>3. configured' => configured
      BY <1>0, <1>5, <2>1, <2>2, QueuingRequests
    <3> QED
      BY <1>0, <1>2, <1>5, <2>1, <2>2, <3>1, <3>2, <3>3, WakesInTime DEF Nudged
  <2> QED
    BY <1>1, <2>1, <2>2 DEF StaysInRegistry
<1>6. CASE BeginRemove \/ EnterDemo
  BY <1>0, <1>1, <1>6, LeavesOutcomes
<1>7. CASE UNCHANGED vars
  BY <1>7 DEF vars, TakenInv, QueuedIsKnown, RestIsRefused, Settled
<1> QED
  BY <1>3, <1>4, <1>5, <1>6, <1>7, TakenByOpsLoop, EnvironmentParts
  DEF Next, Environment

\* The loop over operations rests beside a queued one only when the servers refuse
\* the account: no request is lost between two drains, two supervisors or two
\* passwords.
THEOREM QueuedOperationsAreTaken ==
    ASSUME LateReports = FALSE
    PROVE  Spec => []OperationsAreTaken
<1>1. TakenInv => OperationsAreTaken
  <2> SUFFICES ASSUME TakenInv, NEW g \in Generation,
                      is_current_supervisor(g), OpsAt(g, "parked"),
                      ~supervisors[g].operations_wake,
                      operation = "queued", Idle
               PROVE  version \notin accepted
    BY DEF OperationsAreTaken
  <2>1. /\ current = g /\ current # 0
        /\ command.update = "idle" /\ command.remove = "idle"
    BY NoGenerationIsZero DEF is_current_supervisor, Idle
  <2>2. configured
    BY <2>1 DEF TakenInv, RegistryInv, GoneIsBeingRemoved
  <2> QED
    BY <2>1, <2>2 DEF TakenInv, RestIsRefused, Settled, OpsAt
<1>2. Init => TakenInv
  BY InitTried, InitRegistry
  DEF Init, TakenInv, QueuedIsKnown, RestIsRefused, Settled
<1>3. TakenInv /\ [Next]_vars => TakenInv'
  BY NextTaken
<1> QED
  BY <1>1, <1>2, <1>3, PTL DEF Spec

=============================================================================
