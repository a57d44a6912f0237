------------------------------ MODULE Avatars ------------------------------
(***************************************************************************)
(* The avatar of a user lives in two places that no transaction joins:     *)
(* the row of profiles names a URL, the R2 bucket stores the object.       *)
(* POST and DELETE /profile/me/avatar (profiles.service.ts) change both,   *)
(* one await after the other.  The image itself, and the other columns of  *)
(* the row, which these two never write, are abstracted away.              *)
(*                                                                         *)
(* The bucket is external: PUT and DELETE either answer, or fail with or   *)
(* without having taken effect.  Requests of the slots in Failing may meet *)
(* such a failure or die with the process; those of the other slots run to *)
(* their end.                                                              *)
(***************************************************************************)
EXTENDS FiniteSets

CONSTANTS
    Users,     \* who have a row in profiles
    Objects,   \* the keys saveAvatar can draw: a random UUID never repeats
    Default,   \* DEFAULT_AVATAR_URL, a file on the disk of the container
    Foreign,   \* NULL, or a URL outside the bucket: data from before R2
    Slots,     \* requests in flight
    Failing,   \* the slots whose requests may fail or die
    Idle       \* an empty slot

ASSUME AvatarsAssumption ==
    /\ {Default, Foreign} \cap Objects = {}
    /\ Failing \subseteq Slots

VARIABLES
    avatar,  \* column avatar_url
    stored,  \* the objects in the bucket
    used,    \* the keys drawn so far
    work     \* what each request keeps across its awaits

vars == <<avatar, stored, used, work>>

Urls == Objects \cup {Default, Foreign}

Reading == [pc: {"save", "uploadDelete", "resetDelete", "resetPoint"},
            user: Users, old: Urls]
Pointing == [pc: {"uploadPoint"}, user: Users, old: Urls, new: Objects]

ASSUME IdleAssumption == Idle \notin Reading \cup Pointing

TypeOK ==
    /\ avatar \in [Users -> Urls]
    /\ stored \subseteq used
    /\ used \subseteq Objects
    /\ work \in [Slots -> {Idle} \cup Reading \cup Pointing]

Init ==
    /\ avatar \in [Users -> {Default, Foreign}]
    /\ stored = {}
    /\ used = {}
    /\ work = [w \in Slots |-> Idle]

At(w, pc) == work[w] # Idle /\ work[w].pc = pc

-----------------------------------------------------------------------------
(***************************************************************************)
(* AvatarStorageService and ProfilesRepository.                            *)
(***************************************************************************)

\* Without the UUID in the file name: every upload goes to the same key.
SaveAvatarUnderOneKey(w) ==
    /\ At(w, "save")
    /\ \E x \in Objects :
         /\ used \subseteq {x}
         /\ stored' = stored \cup {x}
         /\ used' = used \cup {x}
         /\ work' = [work EXCEPT ![w] = [pc |-> "uploadPoint", user |-> work[w].user,
                                         old |-> work[w].old, new |-> x]]
    /\ UNCHANGED avatar

\* saveAvatar: the PUT answers and its URL is returned, or it throws: the file
\* is no image (415, nothing was sent), or the PUT failed, whether or not the
\* object is there.
SaveAvatar(w) ==
    /\ At(w, "save")
    /\ \/ \E x \in Objects \ used :
            /\ used' = used \cup {x}
            /\ \/ /\ stored' = stored \cup {x}
                  /\ work' = [work EXCEPT ![w] =
                        [pc |-> "uploadPoint", user |-> work[w].user,
                         old |-> work[w].old, new |-> x]]
               \/ /\ w \in Failing
                  /\ stored' = stored \cup {x}
                  /\ work' = [work EXCEPT ![w] = Idle]
       \/ work' = [work EXCEPT ![w] = Idle] /\ UNCHANGED <<stored, used>>
    /\ UNCHANGED avatar

\* With the trailing slash left on publicUrl no URL starts with the prefix.
DeleteIfCustomUnderDoubleSlash(w, url) == UNCHANGED stored

\* deleteIfCustom skips the default avatar and what is not in this bucket, and
\* only logs a DELETE that fails.
DeleteIfCustom(w, url) ==
    IF url \in Objects
    THEN \/ stored' = stored \ {url}
         \/ w \in Failing /\ UNCHANGED stored
    ELSE UNCHANGED stored

UpdateAvatarUrl(u, url) == avatar' = [avatar EXCEPT ![u] = url]

-----------------------------------------------------------------------------
(***************************************************************************)
(* ProfilesService.updateAvatar: find, save, point, delete.                *)
(***************************************************************************)

UploadFind(w, u) ==
    /\ work[w] = Idle
    /\ work' = [work EXCEPT ![w] = [pc |-> "save", user |-> u, old |-> avatar[u]]]
    /\ UNCHANGED <<avatar, stored, used>>

UploadPoint(w) ==
    /\ At(w, "uploadPoint")
    /\ UpdateAvatarUrl(work[w].user, work[w].new)
    /\ work' = [work EXCEPT ![w] = [pc |-> "uploadDelete", user |-> work[w].user,
                                    old |-> work[w].old]]
    /\ UNCHANGED <<stored, used>>

UploadDelete(w) ==
    /\ At(w, "uploadDelete")
    /\ DeleteIfCustom(w, work[w].old)
    /\ work' = [work EXCEPT ![w] = Idle]
    /\ UNCHANGED <<avatar, used>>

-----------------------------------------------------------------------------
(***************************************************************************)
(* ProfilesService.resetAvatar: find, delete, point.                       *)
(***************************************************************************)

ResetFind(w, u) ==
    /\ work[w] = Idle
    /\ work' = [work EXCEPT ![w] =
                  [pc |-> IF avatar[u] # Default THEN "resetDelete" ELSE "resetPoint",
                   user |-> u, old |-> avatar[u]]]
    /\ UNCHANGED <<avatar, stored, used>>

ResetDelete(w) ==
    /\ At(w, "resetDelete")
    /\ DeleteIfCustom(w, work[w].old)
    /\ work' = [work EXCEPT ![w] = [pc |-> "resetPoint", user |-> work[w].user,
                                    old |-> work[w].old]]
    /\ UNCHANGED <<avatar, used>>

ResetPoint(w) ==
    /\ At(w, "resetPoint")
    /\ UpdateAvatarUrl(work[w].user, Default)
    /\ work' = [work EXCEPT ![w] = Idle]
    /\ UNCHANGED <<stored, used>>

\* A statement is refused, or the process dies: nothing more is done.
Abort(w) ==
    /\ w \in Failing /\ work[w] # Idle
    /\ work' = [work EXCEPT ![w] = Idle]
    /\ UNCHANGED <<avatar, stored, used>>

Step(w) ==
    \/ \E u \in Users : UploadFind(w, u) \/ ResetFind(w, u)
    \/ SaveAvatar(w) \/ UploadPoint(w) \/ UploadDelete(w)
    \/ ResetDelete(w) \/ ResetPoint(w)
    \/ Abort(w)

Next == \E w \in Slots : Step(w)

Spec == Init /\ [][Next]_vars

-----------------------------------------------------------------------------
(***************************************************************************)
(* Properties.                                                             *)
(***************************************************************************)

\* The row names something a browser can load.
Shown(u) == avatar[u] \in stored \cup {Default, Foreign}

\* "User tidak berakhir tanpa avatar sama sekali" (profiles.service.ts:77-79):
\* whatever overlaps and whatever fails, no upload makes the avatar of anyone
\* unloadable.  Only a reset of the same user does, between deleting the
\* object its row names and writing the row, and for good when it dies there.
UploadsKeepAvatars ==
    [][\A u \in Users :
         Shown(u) /\ ~Shown(u)' =>
            \E w \in Slots :
               /\ At(w, "resetDelete") /\ ~At(w, "resetDelete")'
               /\ work[w].user = u /\ work[w].old = avatar[u]]_vars

\* A request is about to name x in a row, or to delete it.
Held(x) ==
    \E w \in Slots :
       \/ At(w, "uploadPoint") /\ work[w].new = x
       \/ (At(w, "uploadDelete") \/ At(w, "resetDelete")) /\ work[w].old = x

Kept(x) == (\E u \in Users : avatar[u] = x) \/ Held(x)

\* "Avatar lama otomatis dihapus" (README.md:755): an object that no row names
\* and no request will delete stays in the bucket only because a request
\* failed, or because two of one user overlapped and the row that is
\* overwritten is not the one its writer read.
OrphansOnlyByOverlap ==
    [][\A x \in stored \cap stored' :
         Kept(x) /\ ~Kept(x)' =>
            \E w \in Slots :
               \/ w \in Failing /\ work'[w] # work[w]
               \/ /\ At(w, "uploadPoint") \/ At(w, "resetPoint")
                  /\ work'[w] # work[w]
                  /\ avatar[work[w].user] = x /\ work[w].old # x]_vars

=============================================================================
