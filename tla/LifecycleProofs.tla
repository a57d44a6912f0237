-------------------------- MODULE LifecycleProofs --------------------------
(***************************************************************************)
(* Proofs about Avatars, for any users, keys and slots, whatever fails,    *)
(* and about Lifecycle: to the table and the bucket a process that boots,  *)
(* stops and is killed does nothing but the steps of Avatars, so what is   *)
(* shown of those holds across restarts; and the default picture is there  *)
(* whenever the server listens.                                            *)
(***************************************************************************)
EXTENDS Lifecycle, TLAPS

\* What a slot in use keeps.
LEMMA WorkFields ==
    ASSUME TypeOK, NEW w \in Slots, work[w] # Idle
    PROVE  /\ work[w].pc \in {"save", "uploadPoint", "uploadDelete", "resetDelete", "resetPoint"}
           /\ work[w].user \in Users
           /\ work[w].old \in Urls
           /\ work[w].pc = "uploadPoint" => work[w].new \in Objects
BY DEF TypeOK, Reading, Pointing

\* Every step of a request keeps the types.
LEMMA TypeStep ==
    ASSUME TypeOK, Next
    PROVE  TypeOK'
<1>1. PICK w \in Slots : Step(w)
  BY DEF Next
<1>2. ASSUME NEW u \in Users, UploadFind(w, u) \/ ResetFind(w, u)
      PROVE  TypeOK'
  BY <1>2 DEF UploadFind, ResetFind, TypeOK, Reading
<1>3. CASE SaveAvatar(w)
  BY <1>3, WorkFields DEF SaveAvatar, At, TypeOK, Pointing
<1>4. CASE UploadPoint(w)
  BY <1>4, WorkFields DEF UploadPoint, UpdateAvatarUrl, At, TypeOK, Reading, Urls
<1>5. CASE UploadDelete(w)
  BY <1>5 DEF UploadDelete, DeleteIfCustom, At, TypeOK
<1>6. CASE ResetDelete(w)
  BY <1>6, WorkFields DEF ResetDelete, DeleteIfCustom, At, TypeOK, Reading
<1>7. CASE ResetPoint(w)
  BY <1>7, WorkFields DEF ResetPoint, UpdateAvatarUrl, At, TypeOK, Urls
<1>8. CASE Abort(w)
  BY <1>8 DEF Abort, TypeOK
<1>9. QED
  BY <1>1, <1>2, <1>3, <1>4, <1>5, <1>6, <1>7, <1>8 DEF Step

\* Rows and bucket have their types at the start.
LEMMA TypeInit == ASSUME Init PROVE TypeOK
BY DEF Init, TypeOK, Urls

\* Rows, bucket and requests keep their types, whatever fails.
THEOREM AvatarTypeCorrect == Spec => []TypeOK
<1>1. TypeOK /\ UNCHANGED vars => TypeOK'
  BY DEF TypeOK, vars
<1>2. QED
  BY <1>1, TypeInit, TypeStep, PTL DEF Spec

-----------------------------------------------------------------------------
(***************************************************************************)
(* Why no upload breaks an avatar: a key is drawn once, so an object is in *)
(* one row at most, the object a request is about to name is nobody's yet, *)
(* and the one it is about to delete has left its row.                     *)
(***************************************************************************)

NamedOnce ==
    /\ \A u \in Users : avatar[u] \in Objects => avatar[u] \in used
    /\ \A u, v \in Users : u # v /\ avatar[u] = avatar[v] => avatar[u] \notin Objects

ReadFromOwnRow ==
    \A w \in Slots :
       work[w] # Idle /\ work[w].old \in Objects =>
          /\ work[w].old \in used
          /\ \A u \in Users : u # work[w].user => avatar[u] # work[w].old

NewIsFresh ==
    \A w \in Slots :
       At(w, "uploadPoint") =>
          /\ work[w].new \in stored
          /\ \A u \in Users : avatar[u] # work[w].new
          /\ \A v \in Slots : work[v] # Idle => work[v].old # work[w].new
          /\ \A v \in Slots \ {w} : At(v, "uploadPoint") => work[v].new # work[w].new

LeftBeforeDeleted ==
    \A w \in Slots :
       At(w, "uploadDelete") /\ work[w].old \in Objects => avatar[work[w].user] # work[w].old

\* Keys are not drawn again, so what a reset deleted stays deleted.
DeletedByReset ==
    \A w \in Slots \ Failing : At(w, "resetPoint") => work[w].old \notin stored

Inv == TypeOK /\ NamedOnce /\ ReadFromOwnRow /\ NewIsFresh /\ LeftBeforeDeleted /\ DeletedByReset

\* No step of a request breaks the invariant.
LEMMA InvStep ==
    ASSUME Inv, Next
    PROVE  Inv'
<1>1. PICK w \in Slots : Step(w)
  BY DEF Next
<1>2. TypeOK /\ TypeOK'
  BY TypeStep DEF Inv
<1> USE AvatarsAssumption DEF Inv, At
<1>3. ASSUME NEW u \in Users, UploadFind(w, u) \/ ResetFind(w, u)
      PROVE  Inv'
  <2>1. /\ work'[w].user = u /\ work'[w].old = avatar[u]
        /\ work'[w].pc \in {"save", "resetDelete", "resetPoint"}
        /\ \A v \in Slots \ {w} : work'[v] = work[v]
    BY <1>2, <1>3 DEF UploadFind, ResetFind, TypeOK, Reading
  <2>2. UNCHANGED <<avatar, stored, used>>
    BY <1>3 DEF UploadFind, ResetFind
  <2>3. NamedOnce'
    BY <2>2 DEF NamedOnce
  <2>4. ReadFromOwnRow'
    BY <2>1, <2>2 DEF ReadFromOwnRow, NamedOnce
  <2>5. NewIsFresh'
    BY <2>1, <2>2 DEF NewIsFresh
  <2>6. LeftBeforeDeleted'
    BY <2>1, <2>2 DEF LeftBeforeDeleted
  <2>7. DeletedByReset'
    BY <1>2, <1>3 DEF DeletedByReset, UploadFind, ResetFind, TypeOK
  <2>8. QED
    BY <1>2, <2>3, <2>4, <2>5, <2>6, <2>7
<1>4. CASE SaveAvatar(w)
  <2>1. UNCHANGED avatar /\ stored \subseteq stored' /\ used \subseteq used'
        /\ work[w] # Idle /\ \A v \in Slots \ {w} : work'[v] = work[v]
    BY <1>4, <1>2 DEF SaveAvatar, TypeOK
  <2>2. \/ work'[w] = Idle
        \/ /\ work'[w].pc = "uploadPoint"
           /\ work'[w].user = work[w].user /\ work'[w].old = work[w].old
           /\ work'[w].new \in stored' /\ work'[w].new \in Objects \ used
    BY <1>4, <1>2 DEF SaveAvatar, TypeOK, Pointing
  <2>3. NamedOnce'
    BY <2>1 DEF NamedOnce
  <2>4. ReadFromOwnRow'
    BY <2>1, <2>2 DEF ReadFromOwnRow
  <2>5. NewIsFresh'
    <3>1. ASSUME NEW x \in Objects \ used
          PROVE  /\ \A u \in Users : avatar[u] # x
                 /\ \A v \in Slots : work[v] # Idle => work[v].old # x
                 /\ \A v \in Slots : At(v, "uploadPoint") => work[v].new # x
      BY <3>1, <1>2 DEF NamedOnce, ReadFromOwnRow, NewIsFresh, TypeOK
    <3>2. QED
      BY <2>1, <2>2, <3>1 DEF NewIsFresh
  <2>6. LeftBeforeDeleted'
    BY <2>1, <2>2 DEF LeftBeforeDeleted
  <2>7. DeletedByReset'
    BY <1>2, <1>4, <2>1, <2>2 DEF DeletedByReset, ReadFromOwnRow, SaveAvatar, TypeOK
  <2>8. QED
    BY <1>2, <2>3, <2>4, <2>5, <2>6, <2>7
<1>5. CASE UploadPoint(w)
  <2>1. /\ work[w] # Idle /\ work[w].pc = "uploadPoint" /\ work[w].user \in Users
        /\ work[w].new \in Objects
    BY <1>5, <1>2, WorkFields DEF UploadPoint
  <2>2. /\ work'[w].pc = "uploadDelete"
        /\ work'[w].user = work[w].user /\ work'[w].old = work[w].old
        /\ \A v \in Slots \ {w} : work'[v] = work[v]
        /\ UNCHANGED <<stored, used>>
    BY <1>5, <1>2 DEF UploadPoint, TypeOK, Reading
  <2>3. /\ avatar'[work[w].user] = work[w].new
        /\ \A u \in Users : u # work[w].user => avatar'[u] = avatar[u]
    BY <1>5, <1>2, <2>1 DEF UploadPoint, UpdateAvatarUrl, TypeOK
  <2>4. /\ work[w].new \in stored
        /\ \A u \in Users : avatar[u] # work[w].new
        /\ \A v \in Slots : work[v] # Idle => work[v].old # work[w].new
        /\ \A v \in Slots \ {w} : At(v, "uploadPoint") => work[v].new # work[w].new
    BY <2>1 DEF NewIsFresh
  <2>5. NamedOnce'
    BY <1>2, <2>1, <2>2, <2>3, <2>4 DEF NamedOnce, TypeOK
  <2>6. ReadFromOwnRow'
    BY <2>1, <2>2, <2>3, <2>4 DEF ReadFromOwnRow
  <2>7. NewIsFresh'
    BY <2>1, <2>2, <2>3, <2>4 DEF NewIsFresh
  <2>8. LeftBeforeDeleted'
    BY <2>1, <2>2, <2>3, <2>4, <1>2, WorkFields DEF LeftBeforeDeleted
  <2>9. DeletedByReset'
    BY <2>2 DEF DeletedByReset
  <2>10. QED
    BY <1>2, <2>5, <2>6, <2>7, <2>8, <2>9
<1>6. CASE UploadDelete(w) \/ ResetDelete(w)
  <2>1. /\ work[w] # Idle
        /\ work'[w] = Idle \/ (/\ work'[w].pc = "resetPoint" /\ work'[w].user = work[w].user
                               /\ work'[w].old = work[w].old)
        /\ \A v \in Slots \ {w} : work'[v] = work[v]
        /\ UNCHANGED <<avatar, used>>
    BY <1>6, <1>2 DEF UploadDelete, ResetDelete, TypeOK, Reading
  <2>2. stored \ {work[w].old} \subseteq stored'
    BY <1>6 DEF UploadDelete, ResetDelete, DeleteIfCustom
  <2>3. NamedOnce'
    BY <2>1 DEF NamedOnce
  <2>4. ReadFromOwnRow'
    BY <2>1 DEF ReadFromOwnRow
  <2>5. NewIsFresh'
    BY <2>1, <2>2 DEF NewIsFresh
  <2>6. LeftBeforeDeleted'
    BY <2>1 DEF LeftBeforeDeleted
  <2>7. DeletedByReset'
    BY <1>2, <1>6, <2>1 DEF DeletedByReset, UploadDelete, ResetDelete, DeleteIfCustom, TypeOK
  <2>8. QED
    BY <1>2, <2>3, <2>4, <2>5, <2>6, <2>7
<1>7. CASE ResetPoint(w)
  <2>1. work[w] # Idle /\ work[w].user \in Users
    BY <1>7, <1>2, WorkFields DEF ResetPoint
  <2>2. /\ work'[w] = Idle
        /\ \A v \in Slots \ {w} : work'[v] = work[v]
        /\ UNCHANGED <<stored, used>>
    BY <1>7, <1>2 DEF ResetPoint, TypeOK
  <2>3. /\ avatar'[work[w].user] = Default
        /\ \A u \in Users : u # work[w].user => avatar'[u] = avatar[u]
    BY <1>7, <1>2, <2>1 DEF ResetPoint, UpdateAvatarUrl, TypeOK
  <2>4. Default \notin Objects
    OBVIOUS
  <2>5. NamedOnce'
    BY <2>1, <2>2, <2>3, <2>4 DEF NamedOnce
  <2>6. ReadFromOwnRow'
    BY <2>1, <2>2, <2>3, <2>4 DEF ReadFromOwnRow
  <2>7. NewIsFresh'
    BY <1>2, <2>1, <2>2, <2>3, <2>4, WorkFields DEF NewIsFresh
  <2>8. LeftBeforeDeleted'
    BY <1>2, <2>1, <2>2, <2>3, <2>4, WorkFields DEF LeftBeforeDeleted
  <2>9. DeletedByReset'
    BY <2>2 DEF DeletedByReset
  <2>10. QED
    BY <1>2, <2>5, <2>6, <2>7, <2>8, <2>9
<1>8. CASE Abort(w)
  <2>1. /\ work'[w] = Idle
        /\ \A v \in Slots \ {w} : work'[v] = work[v]
        /\ UNCHANGED <<avatar, stored, used>>
    BY <1>8, <1>2 DEF Abort, TypeOK
  <2>2. QED
    BY <1>2, <2>1 DEF NamedOnce, ReadFromOwnRow, NewIsFresh, LeftBeforeDeleted, DeletedByReset
<1>9. QED
  BY <1>1, <1>3, <1>4, <1>5, <1>6, <1>7, <1>8 DEF Step

\* The invariant on who may name an object holds of every reachable state.
THEOREM AvatarInvariant == Spec => []Inv
<1>1. Init => Inv
  BY TypeInit, AvatarsAssumption
     DEF Init, Inv, NamedOnce, ReadFromOwnRow, NewIsFresh, LeftBeforeDeleted, DeletedByReset, At
<1>2. Inv /\ UNCHANGED vars => Inv'
  BY DEF Inv, TypeOK, NamedOnce, ReadFromOwnRow, NewIsFresh, LeftBeforeDeleted, DeletedByReset, At, vars
<1>3. QED
  BY <1>1, <1>2, InvStep, PTL DEF Spec

-----------------------------------------------------------------------------
(***************************************************************************)
(* The two action properties.                                              *)
(***************************************************************************)

\* The only step that takes an avatar away from the user who has it is the
\* DELETE of that user's own reset.
LEMMA KeepsStep ==
    ASSUME Inv, Next, NEW u \in Users, Shown(u), ~Shown(u)'
    PROVE  \E w \in Slots :
              /\ At(w, "resetDelete") /\ ~At(w, "resetDelete")'
              /\ work[w].user = u /\ work[w].old = avatar[u]
<1>1. PICK w \in Slots : Step(w)
  BY DEF Next
<1>2. TypeOK
  BY DEF Inv
<1>3. CASE UploadPoint(w)
  <2>1. work[w].new \in stored /\ work[w].user \in Users
    BY <1>3, <1>2, WorkFields DEF UploadPoint, Inv, NewIsFresh, At
  <2>2. avatar'[u] = avatar[u] \/ avatar'[u] = work[w].new
    BY <1>3, <1>2, <2>1 DEF UploadPoint, UpdateAvatarUrl, TypeOK
  <2>3. stored' = stored
    BY <1>3 DEF UploadPoint
  <2>4. QED
    BY <2>1, <2>2, <2>3 DEF Shown
<1>4. CASE UploadDelete(w)
  <2>1. avatar'[u] = avatar[u]
    BY <1>4 DEF UploadDelete
  <2>2. avatar[u] \in stored /\ avatar[u] \in Objects
    BY <2>1, <1>4, <1>2 DEF Shown, UploadDelete, DeleteIfCustom, TypeOK
  <2>3. work[w].old = avatar[u]
    BY <2>1, <2>2, <1>4 DEF Shown, UploadDelete, DeleteIfCustom
  <2>4. FALSE
    BY <2>2, <2>3, <1>4 DEF UploadDelete, At, Inv, LeftBeforeDeleted, ReadFromOwnRow
  <2>5. QED
    BY <2>4
<1>5. CASE ResetDelete(w)
  <2>1. avatar'[u] = avatar[u]
    BY <1>5 DEF ResetDelete
  <2>2. avatar[u] \in stored /\ avatar[u] \in Objects
    BY <2>1, <1>5, <1>2 DEF Shown, ResetDelete, DeleteIfCustom, TypeOK
  <2>3. work[w].old = avatar[u]
    BY <2>1, <2>2, <1>5 DEF Shown, ResetDelete, DeleteIfCustom
  <2>4. work[w].user = u
    BY <2>2, <2>3, <1>5 DEF ResetDelete, At, Inv, ReadFromOwnRow
  <2>5. At(w, "resetDelete") /\ ~At(w, "resetDelete")'
    BY <1>5, <1>2 DEF ResetDelete, At, TypeOK
  <2>6. QED
    BY <2>3, <2>4, <2>5
<1>6. CASE ResetPoint(w)
  <2>1. avatar'[u] = avatar[u] \/ avatar'[u] = Default
    BY <1>6, <1>2 DEF ResetPoint, UpdateAvatarUrl, TypeOK
  <2>2. QED
    BY <2>1, <1>6 DEF ResetPoint, Shown
<1>7. ASSUME avatar' = avatar, stored \subseteq stored'
      PROVE  FALSE
  BY <1>7 DEF Shown
<1>8. QED
  BY <1>1, <1>3, <1>4, <1>5, <1>6, <1>7 DEF Step, UploadFind, ResetFind, SaveAvatar, Abort

\* updateAvatar never makes a row name an object that is gone.
THEOREM UploadsNeverBreak == Spec => UploadsKeepAvatars
<1> DEFINE Keeps == \A u \in Users :
                       Shown(u) /\ ~Shown(u)' =>
                          \E w \in Slots :
                             /\ At(w, "resetDelete") /\ ~At(w, "resetDelete")'
                             /\ work[w].user = u /\ work[w].old = avatar[u]
<1>1. Inv /\ [Next]_vars => [Keeps]_vars
  BY KeepsStep
<1>2. QED
  BY <1>1, AvatarInvariant, PTL DEF Spec, UploadsKeepAvatars

\* Without failures an object that is in a row or in a request's hands gets
\* out of sight in one way only: its row is overwritten by a request that had
\* read another URL there.
LEMMA OrphanStep ==
    ASSUME Inv, Next, NEW x \in stored \cap stored', Kept(x), ~Kept(x)'
    PROVE  \E w \in Slots :
               \/ w \in Failing /\ work'[w] # work[w]
               \/ /\ At(w, "uploadPoint") \/ At(w, "resetPoint")
                  /\ work'[w] # work[w]
                  /\ avatar[work[w].user] = x /\ work[w].old # x
<1>1. PICK w \in Slots : Step(w)
  BY DEF Next
<1>2. TypeOK /\ x \in Objects
  BY DEF Inv, TypeOK
<1>3. \A v \in Slots \ {w} : work'[v] = work[v]
  BY <1>1, <1>2 DEF Step, UploadFind, ResetFind, SaveAvatar, UploadPoint, UploadDelete,
                    ResetDelete, ResetPoint, Abort, TypeOK
<1>4. work'[w] # work[w]
  <2>1. ASSUME NEW u \in Users, UploadFind(w, u) \/ ResetFind(w, u)
        PROVE  work'[w] # work[w]
    <3>1. work'[w] \in Reading
      BY <2>1, <1>2 DEF UploadFind, ResetFind, TypeOK, Reading
    <3>2. QED
      BY <2>1, <3>1, IdleAssumption DEF UploadFind, ResetFind
  <2>2. CASE SaveAvatar(w) \/ UploadPoint(w) \/ ResetDelete(w)
    BY <2>2, <1>2 DEF SaveAvatar, UploadPoint, ResetDelete, At, TypeOK
  <2>3. CASE UploadDelete(w) \/ ResetPoint(w) \/ Abort(w)
    BY <2>3, <1>2 DEF UploadDelete, ResetPoint, Abort, At, TypeOK
  <2>4. QED
    BY <1>1, <2>1, <2>2, <2>3 DEF Step
<1>5. CASE w \in Failing
  BY <1>4, <1>5
<1>6. CASE w \notin Failing
  <2>1. ASSUME avatar' = avatar,
               At(w, "uploadPoint") => At(w, "uploadPoint")' /\ work'[w].new = work[w].new,
               At(w, "uploadDelete") \/ At(w, "resetDelete") => work[w].old # x
        PROVE  FALSE
    BY <2>1, <1>3 DEF Kept, Held, At
  <2>2. ASSUME NEW u \in Users, UploadFind(w, u) \/ ResetFind(w, u)
        PROVE  FALSE
    BY <2>2, <2>1 DEF UploadFind, ResetFind, At
  <2>3. ~SaveAvatar(w)
    BY <2>1 DEF SaveAvatar, At
  <2>4. ~UploadDelete(w) /\ ~ResetDelete(w)
    BY <2>1, <1>2, <1>6 DEF UploadDelete, ResetDelete, DeleteIfCustom, At
  <2>5. CASE UploadPoint(w)
    <3>1. work[w] # Idle /\ work[w].user \in Users
      BY <2>5, <1>2, WorkFields DEF UploadPoint, At
    <3>2. /\ avatar'[work[w].user] = work[w].new
          /\ \A u \in Users : u # work[w].user => avatar'[u] = avatar[u]
      BY <2>5, <1>2, <3>1 DEF UploadPoint, UpdateAvatarUrl, TypeOK
    <3>3. At(w, "uploadDelete")' /\ work'[w].old = work[w].old
      BY <2>5, <1>2, WorkFields, IdleAssumption DEF UploadPoint, At, TypeOK, Reading
    <3>4. work[w].new # x /\ work[w].old # x
      BY <3>1, <3>2, <3>3 DEF Kept, Held
    <3>5. avatar[work[w].user] = x
      BY <1>3, <3>1, <3>2, <3>4, <2>5 DEF Kept, Held, UploadPoint, At
    <3>6. QED
      BY <1>4, <3>4, <3>5, <2>5 DEF UploadPoint
  <2>6. CASE ResetPoint(w)
    <3>1. work[w] # Idle /\ work[w].user \in Users
      BY <2>6, <1>2, WorkFields DEF ResetPoint, At
    <3>2. \A u \in Users : u # work[w].user => avatar'[u] = avatar[u]
      BY <2>6, <1>2, <3>1 DEF ResetPoint, UpdateAvatarUrl, TypeOK
    <3>3. avatar[work[w].user] = x
      BY <1>3, <3>1, <3>2, <2>6 DEF Kept, Held, ResetPoint, At
    <3>4. work[w].old # x
      BY <2>6, <1>6 DEF ResetPoint, Inv, DeletedByReset
    <3>5. QED
      BY <1>4, <3>3, <3>4, <2>6 DEF ResetPoint
  <2>7. QED
    BY <1>1, <1>6, <2>2, <2>3, <2>4, <2>5, <2>6 DEF Step, Abort
<1>7. QED
  BY <1>5, <1>6

\* Unless a request fails, only an overlap leaves an object that no row names.
THEOREM OrphansNeedOverlap == Spec => OrphansOnlyByOverlap
<1> DEFINE Excused == \A x \in stored \cap stored' :
                         Kept(x) /\ ~Kept(x)' =>
                            \E w \in Slots :
                               \/ w \in Failing /\ work'[w] # work[w]
                               \/ /\ At(w, "uploadPoint") \/ At(w, "resetPoint")
                                  /\ work'[w] # work[w]
                                  /\ avatar[work[w].user] = x /\ work[w].old # x
<1>1. Inv /\ [Next]_vars => [Excused]_vars
  BY OrphanStep
<1>2. QED
  BY <1>1, AvatarInvariant, PTL DEF Spec, OrphansOnlyByOverlap

-----------------------------------------------------------------------------
(***************************************************************************)
(* The process around the requests.                                        *)
(***************************************************************************)

\* A step of the process, or one that the process cuts short, is a step of a
\* request or none.
LEMMA LifecycleStepMaps ==
    ASSUME [LifecycleNext]_lvars
    PROVE  [Next]_vars
<1>1. CASE UNCHANGED lvars
  BY <1>1 DEF lvars
<1>2. CASE ProcessStep
  BY <1>2 DEF ProcessStep, Boot, CopyBegin, CopyEnd, BootFails, Listen, Terminate, QuitRedis, Exit, Kill,
               Redeploy
<1>3. ASSUME NEW w \in Slots, Serve(w) \/ Drain(w) \/ Vanish(w)
      PROVE  Next
  BY <1>3 DEF Serve, Drain, Vanish, FinishStatement, RefuseStatement, CallBucket, Step, Next
<1>4. QED
  BY <1>1, <1>2, <1>3 DEF LifecycleNext

\* LifecycleSpec implements the specification of Avatars.
THEOREM LifecycleImplementsAvatars == LifecycleSpec => Spec
<1>1. LifecycleInit => Init
  BY DEF LifecycleInit
<1>2. QED
  BY <1>1, LifecycleStepMaps, PTL DEF LifecycleSpec, Spec

\* Restarts and kills included, no upload takes an avatar away.
THEOREM RestartsKeepAvatars == LifecycleSpec => UploadsKeepAvatars
BY LifecycleImplementsAvatars, UploadsNeverBreak

\* Restarts and kills included, an object is left behind only by a request that
\* failed or was cut short, or by an overlap.
THEOREM RestartsLeaveNoOrphans == LifecycleSpec => OrphansOnlyByOverlap
BY LifecycleImplementsAvatars, OrphansNeedOverlap

-----------------------------------------------------------------------------
(***************************************************************************)
(* Types.  That nothing is in flight while the process boots, and that all *)
(* that is cut short may be, is part of them.                              *)
(***************************************************************************)

\* A request's step leaves the other requests alone.
LEMMA SlotsOfOneStep ==
    ASSUME TypeOK, NEW w \in Slots, Step(w)
    PROVE  \A v \in Slots \ {w} : work'[v] = work[v]
BY DEF Step, UploadFind, ResetFind, SaveAvatar, UploadPoint, UploadDelete, ResetDelete, ResetPoint,
       Abort, TypeOK

\* Every step of the process and its requests keeps the types.
LEMMA LifecycleTypeStep ==
    ASSUME LifecycleTypeOK, LifecycleNext
    PROVE  LifecycleTypeOK'
<1>1. TypeOK /\ TypeOK'
  <2>1. CASE Next
    BY <2>1, TypeStep DEF LifecycleTypeOK
  <2>2. CASE UNCHANGED vars
    BY <2>2 DEF LifecycleTypeOK, TypeOK, vars
  <2>3. QED
    BY <2>1, <2>2, LifecycleStepMaps
<1> USE <1>1 DEF LifecycleTypeOK, Phases
<1>2. ASSUME ProcessStep
      PROVE  LifecycleTypeOK'
  <2>1. Unfinished' = Unfinished /\ \A w \in Slots : Updating(w)' = Updating(w)
    BY <1>2 DEF ProcessStep, Boot, CopyBegin, CopyEnd, BootFails, Listen, Terminate, QuitRedis,
                Exit, Kill, Redeploy, Unfinished, Updating, At, vars
  <2>2. CASE Boot \/ CopyBegin \/ CopyEnd \/ BootFails \/ Listen
    BY <2>1, <2>2 DEF Boot, CopyBegin, CopyEnd, BootFails, Listen, stopVars
  <2>3. CASE Terminate
    BY <2>1, <2>3 DEF Terminate
  <2>4. CASE Exit
    <3>1. sent = {} /\ queued = {}
      BY <2>4 DEF Exit, Unfinished, Updating, At
    <3>2. QED
      BY <2>1, <2>4, <3>1 DEF Exit, stopVars
  <2>5. CASE Kill \/ Redeploy
    BY <2>1, <2>5 DEF Kill, Redeploy, stopVars
  <2>6. CASE QuitRedis
    BY <2>1, <2>6 DEF QuitRedis
  <2>7. QED
    BY <1>2, <2>2, <2>3, <2>4, <2>5, <2>6 DEF ProcessStep
<1>3. ASSUME NEW w \in Slots, Serve(w)
      PROVE  LifecycleTypeOK'
  BY <1>3 DEF Serve, lifecycleVars, stopVars
<1>4. ASSUME NEW w \in Slots, Drain(w)
      PROVE  LifecycleTypeOK'
  <2>1. \A v \in Slots \ {w} : work'[v] = work[v]
    BY <1>4, SlotsOfOneStep DEF Drain, FinishStatement, RefuseStatement, CallBucket, Step
  <2>2. phase = "stop" /\ phase' = "stop" /\ picture' = picture /\ torn' = torn
        /\ queued' = queued /\ quitting' = quitting
    BY <1>4 DEF Drain, FinishStatement, RefuseStatement, CallBucket, lifecycleVars, stopVars
  <2>3. w \in Failing
    BY <1>4, <2>2 DEF Drain, FinishStatement, RefuseStatement, CallBucket, SaveAvatar, UploadDelete,
                      ResetDelete, Abort, Updating, Unfinished, At
  <2>4. Unfinished' \subseteq Unfinished \cup {w}
    BY <2>1 DEF Unfinished
  <2>5. /\ sent' \subseteq sent
        /\ \A v \in sent' \cup queued : v # w
    <3>1. CASE FinishStatement(w)
      BY <3>1 DEF FinishStatement
    <3>2. CASE RefuseStatement(w)
      BY <3>2 DEF RefuseStatement, lifecycleVars, stopVars
    <3>3. CASE CallBucket(w)
      BY <3>3 DEF CallBucket, lifecycleVars, stopVars, SaveAvatar, UploadDelete, ResetDelete, At, Updating
    <3>4. QED
      BY <1>4, <3>1, <3>2, <3>3 DEF Drain
  <2>6. \A v \in sent' \cup queued' : v \in Slots /\ Updating(v)'
    BY <2>1, <2>2, <2>5 DEF Updating, At
  <2>7. QED
    BY <2>2, <2>3, <2>4, <2>5, <2>6
<1>5. ASSUME NEW w \in Slots, Vanish(w)
      PROVE  LifecycleTypeOK'
  <2>1. \A v \in Slots : work'[v] = work[v] \/ work'[v] = Idle
    BY <1>5 DEF Vanish, Abort, TypeOK
  <2>2. Unfinished' \subseteq Unfinished
    BY <2>1 DEF Unfinished
  <2>3. QED
    BY <1>5, <2>2 DEF Vanish, lifecycleVars, stopVars
<1>6. QED
  BY <1>2, <1>3, <1>4, <1>5 DEF LifecycleNext

\* Type correctness, and whose requests a stop or a kill can cut short.
THEOREM LifecycleTypeCorrect == LifecycleSpec => []LifecycleTypeOK
<1>1. LifecycleInit => LifecycleTypeOK
  BY TypeInit DEF LifecycleInit, LifecycleTypeOK, Phases, Unfinished, Init
<1>2. LifecycleTypeOK /\ UNCHANGED lvars => LifecycleTypeOK'
  BY DEF LifecycleTypeOK, lvars, lifecycleVars, stopVars, vars, TypeOK, Unfinished, Updating, At
<1>3. QED
  BY <1>1, <1>2, LifecycleTypeStep, PTL DEF LifecycleSpec

-----------------------------------------------------------------------------
(***************************************************************************)
(* The default picture.  A part of it lies on the disk during a copy, and  *)
(* after one that was killed.                                              *)
(***************************************************************************)

PictureInv ==
    /\ picture \in {"none", "part", "whole"}
    /\ picture = "part" => phase = "copy" \/ torn
    /\ phase \in {"serve", "stop"} => picture # "none"

\* Whatever boots failed or were killed before, a server that listens has the
\* whole picture, unless a copy was killed on this disk.
THEOREM DefaultPictureServed == LifecycleSpec => []DefaultOnDisk
<1>1. LifecycleInit => PictureInv
  BY DEF LifecycleInit, PictureInv
<1>2. PictureInv /\ [LifecycleNext]_lvars => PictureInv'
  <2> SUFFICES ASSUME PictureInv, [LifecycleNext]_lvars PROVE PictureInv'
    OBVIOUS
  <2> USE DEF PictureInv
  <2>1. CASE ProcessStep
    BY <2>1 DEF ProcessStep, Boot, CopyBegin, CopyEnd, BootFails, Listen, Terminate,
                QuitRedis, Exit, Kill, Redeploy
  <2>2. ASSUME NEW w \in Slots, Serve(w) \/ Drain(w) \/ Vanish(w)
        PROVE  UNCHANGED <<phase, picture, torn>>
    BY <2>2 DEF Serve, Drain, Vanish, FinishStatement, RefuseStatement, CallBucket, lifecycleVars
  <2>3. QED
    BY <2>1, <2>2 DEF LifecycleNext, lvars, lifecycleVars
<1>3. PictureInv => DefaultOnDisk
  BY DEF PictureInv, DefaultOnDisk
<1>4. QED
  BY <1>1, <1>2, <1>3, PTL DEF LifecycleSpec

=============================================================================
