------------------------------ MODULE Lifecycle ------------------------------
(***************************************************************************)
(* The server process around the requests of Avatars: it boots (main.ts,   *)
(* onModuleInit of AvatarStorageService), serves, stops on SIGTERM with    *)
(* the shutdown hooks of DatabaseModule, or is killed, and boots again.    *)
(*                                                                         *)
(* The hooks run before the HTTP server closes, one after the other; a     *)
(* stop begins here with pool.end(), for until then the process serves as  *)
(* before.  A statement that has its connection by then is finished.  One  *)
(* that waits for a connection, because the others hold all of them, is    *)
(* neither served nor refused: the pool hands out no more connections and  *)
(* no limit of time is set for waiting.  Later ones are refused, and calls *)
(* to R2 still go out.  A request that this, or a kill, cuts short is one  *)
(* of Failing: the others end while it serves.                             *)
(*                                                                         *)
(* One process at a time.  A boot that validateEnv or a module refuses     *)
(* before onModuleInit exits and changes nothing.                          *)
(***************************************************************************)
EXTENDS Avatars

VARIABLES
    phase,   \* of the process
    picture, \* uploads/avatars/default.png, on the disk of the container
    sent,    \* requests whose statement has a connection when the pool ends
    queued,  \* requests whose statement waits for one when the pool ends
    quitting, \* the stop has QUIT still to be answered by Redis
    torn     \* (h) was a process killed while it copied that file?

stopVars == <<sent, queued, quitting>>
lifecycleVars == <<phase, picture, stopVars, torn>>
lvars == <<vars, lifecycleVars>>

Phases == {"down", "boot", "copy", "serve", "stop"}

Unfinished == {w \in Slots : work[w] # Idle}

\* At a statement that changes the row.
Updating(w) == At(w, "uploadPoint") \/ At(w, "resetPoint")

LifecycleTypeOK ==
    /\ TypeOK
    /\ phase \in Phases
    /\ picture \in {"none", "part", "whole"}
    /\ torn \in BOOLEAN
    /\ phase \in {"boot", "copy"} => Unfinished = {}
    /\ phase = "copy" => picture = "part"
    /\ phase \in {"down", "stop"} => Unfinished \subseteq Failing
    /\ sent \cup queued \subseteq {w \in Slots : phase = "stop" /\ Updating(w)}
    /\ sent \cap queued = {}
    /\ quitting \in {FALSE, phase = "stop"}

LifecycleInit ==
    /\ Init
    /\ phase = "down" /\ picture = "none" /\ torn = FALSE
    /\ sent = {} /\ queued = {} /\ quitting = FALSE

-----------------------------------------------------------------------------
(***************************************************************************)
(* Boot.                                                                   *)
(***************************************************************************)

Boot ==
    /\ phase = "down" /\ Unfinished = {}
    /\ phase' = "boot"
    /\ UNCHANGED <<vars, picture, stopVars, torn>>

\* fileExists asks for the name alone; copyFile creates the file, then fills it.
CopyBegin ==
    /\ phase = "boot" /\ picture = "none"
    /\ phase' = "copy" /\ picture' = "part"
    /\ UNCHANGED <<vars, stopVars, torn>>

CopyEnd ==
    /\ phase = "copy"
    /\ phase' = "boot" /\ picture' = "whole"
    /\ UNCHANGED <<vars, stopVars, torn>>

\* With the copy written by hand, as a stream say, an error leaves what it wrote.
BootFailsLeavingPart ==
    /\ phase \in {"boot", "copy"}
    /\ phase' = "down"
    /\ UNCHANGED <<vars, picture, stopVars, torn>>

\* mkdir or listen fails, or copyFile does and removes what it wrote: exit(1).
BootFails ==
    /\ phase \in {"boot", "copy"}
    /\ phase' = "down"
    /\ picture' = IF phase = "copy" THEN "none" ELSE picture
    /\ UNCHANGED <<vars, stopVars, torn>>

Listen ==
    /\ phase = "boot" /\ picture # "none"
    /\ phase' = "serve"
    /\ UNCHANGED <<vars, picture, stopVars, torn>>

-----------------------------------------------------------------------------

Serve(w) ==
    /\ phase = "serve"
    /\ Step(w)
    /\ UNCHANGED lifecycleVars

-----------------------------------------------------------------------------
(***************************************************************************)
(* SIGTERM.                                                                *)
(***************************************************************************)

\* With the busy requests taken for the busy connections.
TerminateCountingRequests ==
    /\ phase = "serve" /\ Unfinished \subseteq Failing
    /\ phase' = "stop"
    /\ sent' = Unfinished /\ queued' = {}
    /\ quitting' \in BOOLEAN
    /\ UNCHANGED <<vars, picture, torn>>

\* onModuleDestroy: pool.end(), while any request may hold a connection.  The
\* hook of RedisModule has been run before or comes next.
Terminate ==
    /\ phase = "serve" /\ Unfinished \subseteq Failing
    /\ phase' = "stop"
    /\ sent' \in SUBSET {w \in Slots : Updating(w)}
    /\ queued' \in SUBSET {w \in Slots \ sent' : Updating(w)}
    /\ quitting' \in BOOLEAN
    /\ UNCHANGED <<vars, picture, torn>>

FinishStatement(w) ==
    /\ w \in sent
    /\ UploadPoint(w) \/ ResetPoint(w)
    /\ sent' = sent \ {w}
    /\ UNCHANGED <<phase, picture, queued, quitting, torn>>

\* pool.end() resolves once no connection is busy, and only then comes the next
\* hook, client.quit(): it answers, or throws and is logged.
QuitRedis ==
    /\ quitting /\ sent = {}
    /\ quitting' = FALSE
    /\ UNCHANGED <<vars, phase, picture, sent, queued, torn>>

\* With later statements kept waiting for a connection too.
KeepStatementWaiting(w) ==
    /\ phase = "stop" /\ Updating(w) /\ w \notin sent \cup queued
    /\ UNCHANGED lvars

\* "Cannot use a pool after calling end": the request ends with 500.
RefuseStatement(w) ==
    /\ phase = "stop" /\ Updating(w) /\ w \notin sent \cup queued
    /\ Abort(w)
    /\ UNCHANGED lifecycleVars

CallBucket(w) ==
    /\ phase = "stop"
    /\ SaveAvatar(w) \/ UploadDelete(w) \/ ResetDelete(w)
    /\ UNCHANGED lifecycleVars

Drain(w) == FinishStatement(w) \/ RefuseStatement(w) \/ CallBucket(w)

\* The hooks are done and the HTTP server has closed, with no request left.
Exit ==
    /\ phase = "stop" /\ ~quitting /\ Unfinished = {}
    /\ phase' = "down"
    /\ UNCHANGED <<vars, picture, stopVars, torn>>

-----------------------------------------------------------------------------
(***************************************************************************)
(* SIGKILL, a crash, a new container.                                      *)
(***************************************************************************)

Kill ==
    /\ phase # "down" /\ Unfinished \subseteq Failing
    /\ phase' = "down"
    /\ torn' = (torn \/ phase = "copy")
    /\ sent' = {} /\ queued' = {} /\ quitting' = FALSE
    /\ UNCHANGED <<vars, picture>>

\* What a killed process was doing is gone before the next boot.
Vanish(w) ==
    /\ phase = "down"
    /\ Abort(w)
    /\ UNCHANGED lifecycleVars

\* The disk of a container starts as the image has it, without the file.
Redeploy ==
    /\ phase = "down" /\ picture # "none"
    /\ picture' = "none" /\ torn' = FALSE
    /\ UNCHANGED <<vars, phase, stopVars>>

ProcessStep ==
    \/ Boot \/ CopyBegin \/ CopyEnd \/ BootFails \/ Listen
    \/ Terminate \/ QuitRedis \/ Exit \/ Kill \/ Redeploy

LifecycleNext == ProcessStep \/ \E w \in Slots : Serve(w) \/ Drain(w) \/ Vanish(w)

LifecycleSpec == LifecycleInit /\ [][LifecycleNext]_lvars

\* R2, the database and Redis answer or fail in the end, and node goes on from
\* there.
FairLifecycleSpec ==
    /\ LifecycleSpec
    /\ \A w \in Slots : WF_lvars(Drain(w))
    /\ WF_lvars(QuitRedis)
    /\ WF_lvars(Exit)

-----------------------------------------------------------------------------
(***************************************************************************)
(* Properties.                                                             *)
(***************************************************************************)

\* "Pastikan default avatar BENAR-BENAR ada di disk lokal" (avatar-storage.
\* service.ts:88-91): whatever boots failed before, the file is whole while the
\* server listens - unless a process was killed in the middle of the copy, for
\* every later boot finds the name and takes the part for the file.
DefaultOnDisk == phase \in {"serve", "stop"} => picture = "whole" \/ torn

\* "Koneksi Postgres ditutup rapi, bukan diputus paksa di tengah query"
\* (main.ts:31-36), and what that leaves of the requests: a stop that is not
\* killed finishes or refuses every one of them and ends, but for those whose
\* statement was waiting for a connection when the pool ended.  They, and
\* nothing else, keep the server from closing for ever.
StopsEnd ==
    phase = "stop" ~> \/ phase = "down"
                      \/ queued # {} /\ Unfinished = queued /\ ~quitting

=============================================================================
