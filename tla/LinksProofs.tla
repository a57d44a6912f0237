---------------------------- MODULE LinksProofs ----------------------------
(***************************************************************************)
(* Proofs about one-time links, for any number of users, links and         *)
(* overlapping requests: what each statement of OneTimeTokens does to the  *)
(* table of links, then the two modules that compose these statements into *)
(* requests, EmailVerification and PasswordReset.                          *)
(***************************************************************************)
EXTENDS EmailVerification, PasswordReset, SessionsProofs, FiniteSetTheorems

-----------------------------------------------------------------------------
(***************************************************************************)
(* The table of links: counting.                                           *)
(***************************************************************************)

\* Two finite sets that differ at most in x.
LEMMA OneApart ==
    ASSUME NEW A, NEW B, NEW x, IsFiniteSet(A), A \ {x} = B \ {x}
    PROVE  /\ IsFiniteSet(B)
           /\ Cardinality(A) \in Nat /\ Cardinality(B) \in Nat
           /\ (x \in A <=> x \in B) => Cardinality(B) = Cardinality(A)
           /\ x \in A /\ x \notin B => Cardinality(A) = Cardinality(B) + 1
           /\ x \notin A /\ x \in B => Cardinality(B) = Cardinality(A) + 1
<1>1. CASE x \in A <=> x \in B
  <2>1. A = B
    BY <1>1
  <2>2. QED
    BY <1>1, <2>1, FS_CardinalityType
<1>2. CASE x \in A /\ x \notin B
  <2>1. B = A \ {x}
    BY <1>2
  <2>2. QED
    BY <1>2, <2>1, FS_RemoveElement, FS_CardinalityType
<1>3. CASE x \notin A /\ x \in B
  <2>1. B = A \cup {x}
    BY <1>3
  <2>2. QED
    BY <1>3, <2>1, FS_AddElement, FS_CardinalityType
<1>4. QED
  BY <1>1, <1>2, <1>3

\* Sets that agree but for an element of neither are the same.
LEMMA NoneApart ==
    ASSUME NEW A, NEW B, NEW x, A \ {x} = B \ {x}, x \notin A, x \notin B
    PROVE  A = B
OBVIOUS

\* A row after it was consumed for the first time.
LEMMA ConsumedRow ==
    ASSUME NEW r \in Link, NEW q, q = [r EXCEPT !.isUsed = TRUE, !.uses = 1]
    PROVE  q \in Link /\ q.owner = r.owner /\ q.isUsed = TRUE /\ q.uses = 1
<1>1. q \in Link
  BY DEF Link
<1>2. q.owner = r.owner
  BY DEF Link
<1>3. q.isUsed = TRUE
  BY DEF Link
<1>4. q.uses = 1
  BY DEF Link
<1>5. QED
  BY <1>1, <1>2, <1>3, <1>4

\* The requests for u in one of these states.
JobsIn(pcs, u) == {j \in Jobs : job[j] # Idle /\ job[j].pc \in pcs /\ job[j].user = u}

JobTable == job = [j \in Jobs |-> job[j]]

\* Requests in given states are finitely many.
LEMMA JobsInFinite ==
    ASSUME NEW pcs, NEW u
    PROVE  /\ IsFiniteSet(JobsIn(pcs, u))
           /\ Cardinality(JobsIn(pcs, u)) \in Nat
           /\ Cardinality(JobsIn(pcs, u)) <= Cardinality(Jobs)
           /\ Cardinality(Jobs) \in Nat
BY LinksAssumption, FS_Subset, FS_CardinalityType DEF JobsIn

\* A request goes from one state to another: only where it was and where it is
\* the count may differ.
LEMMA JobMoves ==
    ASSUME JobTable, NEW j \in Jobs, NEW state, JobGoto(j, state), NEW pcs, NEW u
    PROVE  LET there == job[j] # Idle /\ job[j].pc \in pcs /\ job[j].user = u
               here  == state # Idle /\ state.pc \in pcs /\ state.user = u
               n == Cardinality(JobsIn(pcs, u))
               m == Cardinality(JobsIn(pcs, u))'
           IN  /\ n \in Nat /\ m \in Nat
               /\ there /\ here => m = n
               /\ ~there /\ ~here => m = n
               /\ there /\ ~here => n = m + 1
               /\ ~there /\ here => m = n + 1
<1>1. /\ job'[j] = state
      /\ \A i \in Jobs \ {j} : job'[i] = job[i]
  BY DEF JobTable, JobGoto
<1>2. JobsIn(pcs, u) \ {j} = JobsIn(pcs, u)' \ {j}
  BY <1>1 DEF JobsIn
<1>3. /\ j \in JobsIn(pcs, u) <=> job[j] # Idle /\ job[j].pc \in pcs /\ job[j].user = u
      /\ j \in JobsIn(pcs, u)' <=> state # Idle /\ state.pc \in pcs /\ state.user = u
  BY <1>1 DEF JobsIn
<1>4. IsFiniteSet(JobsIn(pcs, u))
  BY JobsInFinite
<1>5. QED
  BY <1>2, <1>3, <1>4, OneApart

\* What a request of somebody else does.
LEMMA JobsElsewhere ==
    ASSUME JobTable, NEW j \in Jobs, NEW state, JobGoto(j, state), NEW pcs, NEW u,
           job[j].user # u, state.user # u
    PROVE  JobsIn(pcs, u)' = JobsIn(pcs, u)
<1>1. /\ job'[j] = state
      /\ \A i \in Jobs \ {j} : job'[i] = job[i]
  BY DEF JobTable, JobGoto
<1>2. QED
  BY <1>1 DEF JobsIn

-----------------------------------------------------------------------------
(***************************************************************************)
(* The table.                                                              *)
(***************************************************************************)

Consumed(u) == {t \in LinkIds : links[t].owner = u /\ links[t].uses > 0}

\* A link that was used is marked so; a link is not used twice; and the good
\* links of a user, together with the requests about to add one, are not more
\* than the requests that can overlap.
LinksInv ==
    /\ links \in Seq(Link)
    /\ mailed \subseteq LinkIds
    /\ \A t \in LinkIds : links[t].uses <= 1 /\ (links[t].uses > 0 => links[t].isUsed)
    /\ \A u \in Users :
          Cardinality(UsableLinks(u)) + Cardinality(JobsIn({"create"}, u)) <= Cardinality(Jobs)

\* The good links and the consumed ones of a user are finitely many.
LEMMA LinkSets ==
    ASSUME links \in Seq(Link), NEW u
    PROVE  /\ Len(links) \in Nat /\ LinkIds = 1..Len(links)
           /\ \A t \in LinkIds : links[t] \in Link
           /\ IsFiniteSet(UsableLinks(u)) /\ Cardinality(UsableLinks(u)) \in Nat
           /\ IsFiniteSet(Consumed(u)) /\ Cardinality(Consumed(u)) \in Nat
<1>1. Len(links) \in Nat /\ LinkIds = 1..Len(links) /\ \A t \in LinkIds : links[t] \in Link
  BY DEF LinkIds
<1>2. IsFiniteSet(LinkIds)
  BY <1>1, FS_Interval
<1>3. UsableLinks(u) \in SUBSET LinkIds /\ Consumed(u) \in SUBSET LinkIds
  BY DEF UsableLinks, Consumed
<1>4. QED
  BY <1>1, <1>2, <1>3, FS_Subset, FS_CardinalityType

\* Rows rewritten in place stay a table.
LEMMA LinksRewritten ==
    ASSUME links \in Seq(Link), NEW f, f = [t \in LinkIds |-> f[t]], \A t \in LinkIds : f[t] \in Link
    PROVE  f \in Seq(Link) /\ DOMAIN f = LinkIds
<1>1. Len(links) \in Nat /\ LinkIds = 1..Len(links)
  BY DEF LinkIds
<1>2. f \in [1..Len(links) -> Link]
  BY <1>1
<1>3. QED
  BY <1>1, <1>2, SeqDef

\* Steps that leave the table alone and bring no request to its insert.
LEMMA LinksUntouched ==
    ASSUME LinksInv, UNCHANGED links, mailed' \subseteq LinkIds,
           \A u \in Users : Cardinality(JobsIn({"create"}, u))' <= Cardinality(JobsIn({"create"}, u)),
           \A u \in Users : Cardinality(JobsIn({"create"}, u))' \in Nat
    PROVE  LinksInv' /\ \A u \in Users : Consumed(u)' = Consumed(u)
<1>1. \A u \in Users : UsableLinks(u)' = UsableLinks(u) /\ Consumed(u)' = Consumed(u)
  BY DEF UsableLinks, Consumed, LinkIds
<1>2. \A u \in Users : /\ Cardinality(UsableLinks(u)) \in Nat
                       /\ Cardinality(JobsIn({"create"}, u)) \in Nat
                       /\ Cardinality(Jobs) \in Nat
  BY LinkSets, JobsInFinite DEF LinksInv
<1>3. QED
  BY <1>1, <1>2 DEF LinksInv, LinkIds

\* A request for a link that begins changes no link.
LEMMA IssueStartKeeps ==
    ASSUME LinksInv, JobTable, NEW j \in Jobs, NEW v, IssueStart(j, v)
    PROVE  LinksInv' /\ \A u \in Users : Consumed(u)' = Consumed(u)
<1>1. \A u \in Users : /\ Cardinality(JobsIn({"create"}, u))' = Cardinality(JobsIn({"create"}, u))
                       /\ Cardinality(JobsIn({"create"}, u))' \in Nat
  BY JobMoves DEF IssueStart
<1>2. QED
  BY <1>1, LinksUntouched DEF IssueStart, LinksInv

\* A request that moves on, or dies, and writes no link leaves no more of them.
LEMMA JobAbortKeeps ==
    ASSUME LinksInv, JobTable, NEW j \in Jobs, UNCHANGED <<links, mailed>>, NEW state,
           JobGoto(j, state), state = Idle \/ state.pc # "create"
    PROVE  LinksInv' /\ \A u \in Users : Consumed(u)' = Consumed(u)
<1>1. \A u \in Users : /\ Cardinality(JobsIn({"create"}, u))' <= Cardinality(JobsIn({"create"}, u))
                       /\ Cardinality(JobsIn({"create"}, u))' \in Nat
  BY JobMoves
<1>2. QED
  BY <1>1, LinksUntouched DEF LinksInv

\* After an invalidation the user has no good link left, whoever is about to
\* insert one.
LEMMA IssueInvalidateKeeps ==
    ASSUME LinksInv, JobTable, NEW j \in Jobs, job[j].user \in Users, IssueInvalidate(j),
           NEW state, JobGoto(j, state), state.user = job[j].user
    PROVE  LinksInv' /\ \A u \in Users : Consumed(u)' = Consumed(u)
<1> DEFINE v == job[j].user
<1>1. /\ links' = [t \in LinkIds |-> links'[t]]
      /\ \A t \in LinkIds : links[t].owner # v => links'[t] = links[t]
      /\ \A t \in LinkIds : links[t].owner = v => links'[t] = [links[t] EXCEPT !.isUsed = TRUE]
  BY DEF IssueInvalidate
<1>2. \A t \in LinkIds : links[t] \in Link
  BY LinkSets DEF LinksInv
<1>3. \A t \in LinkIds : /\ links'[t] \in Link /\ links'[t].owner = links[t].owner
                         /\ links'[t].uses = links[t].uses
                         /\ links[t].isUsed => links'[t].isUsed
                         /\ links[t].owner = v => links'[t].isUsed
                         /\ links[t].owner # v => links'[t].isUsed = links[t].isUsed
  BY <1>1, <1>2 DEF Link
<1>4. links' \in Seq(Link) /\ LinkIds' = LinkIds
  BY <1>1, <1>3, LinksRewritten DEF LinkIds, LinksInv
<1>5. \A u \in Users : Consumed(u)' = Consumed(u)
  BY <1>3, <1>4 DEF Consumed
<1>6. ASSUME NEW u \in Users
      PROVE  (Cardinality(UsableLinks(u)) + Cardinality(JobsIn({"create"}, u)) <= Cardinality(Jobs))'
  <2>1. CASE u = v
    <3>1. UsableLinks(u)' = {}
      BY <1>3, <1>4, <2>1 DEF UsableLinks
    <3>2. /\ Cardinality(JobsIn({"create"}, u))' \in Nat
          /\ Cardinality(JobsIn({"create"}, u))' <= Cardinality(Jobs)
      BY LinksAssumption, FS_Subset, FS_CardinalityType DEF JobsIn
    <3>3. QED
      BY <3>1, <3>2, FS_EmptySet
  <2>2. CASE u # v
    <3>1. UsableLinks(u)' = UsableLinks(u)
      BY <1>3, <1>4, <2>2 DEF UsableLinks
    <3>2. JobsIn({"create"}, u)' = JobsIn({"create"}, u)
      BY <2>2, JobsElsewhere
    <3>3. QED
      BY <3>1, <3>2 DEF LinksInv
  <2>3. QED
    BY <2>1, <2>2
<1>7. QED
  BY <1>3, <1>4, <1>5, <1>6 DEF LinksInv, IssueInvalidate

\* The insert takes the place that its request had reserved.
LEMMA IssueCreateKeeps ==
    ASSUME LinksInv, JobTable, NEW j \in Jobs, job[j].user \in Users, IssueCreate(j)
    PROVE  LinksInv' /\ \A u \in Users : Consumed(u)' = Consumed(u)
<1> DEFINE row == [owner |-> job[j].user, isUsed |-> FALSE, isExpired |-> FALSE, uses |-> 0]
           n == Len(links) + 1
<1>1. row \in Link
  BY DEF Link
<1>2. links' = Append(links, row) /\ mailed' \in {mailed, mailed \cup {n}}
  BY DEF IssueCreate, SendMail
<1>3. Len(links) \in Nat /\ LinkIds = 1..Len(links)
  BY LinkSets DEF LinksInv
<1>4. /\ links' \in Seq(Link) /\ LinkIds' = LinkIds \cup {n} /\ n \notin LinkIds
      /\ links'[n] = row /\ \A t \in LinkIds : links'[t] = links[t]
  <2> HIDE DEF row
  <2>1. links' \in Seq(Link) /\ Len(links') = n
    BY <1>1, <1>2, AppendProperties DEF LinksInv
  <2>2. LinkIds' = 1..n
    BY <2>1 DEF LinkIds
  <2>3. QED
    BY <1>1, <1>2, <1>3, <2>1, <2>2, AppendProperties DEF LinksInv
<1>5. \A u \in Users : Consumed(u)' = Consumed(u)
  BY <1>4 DEF Consumed
<1>6. ASSUME NEW u \in Users
      PROVE  (Cardinality(UsableLinks(u)) + Cardinality(JobsIn({"create"}, u)) <= Cardinality(Jobs))'
  <2>1. /\ IsFiniteSet(UsableLinks(u)) /\ Cardinality(Jobs) \in Nat
        /\ Cardinality(UsableLinks(u)) + Cardinality(JobsIn({"create"}, u)) <= Cardinality(Jobs)
    BY LinkSets, JobsInFinite DEF LinksInv
  <2>2. UsableLinks(u) \ {n} = UsableLinks(u)' \ {n} /\ n \notin UsableLinks(u)
    BY <1>4 DEF UsableLinks
  <2>3. n \in UsableLinks(u)' <=> job[j].user = u
    BY <1>4 DEF UsableLinks
  <2>4. CASE job[j].user = u
    <3>1. Cardinality(JobsIn({"create"}, u)) = Cardinality(JobsIn({"create"}, u))' + 1
          /\ Cardinality(JobsIn({"create"}, u))' \in Nat
      BY <2>4, JobMoves DEF IssueCreate, JobAt, JobFinish
    <3>2. Cardinality(UsableLinks(u)') = Cardinality(UsableLinks(u)) + 1
          /\ Cardinality(UsableLinks(u)) \in Nat
      BY <2>1, <2>2, <2>3, <2>4, OneApart
    <3>3. QED
      BY <2>1, <3>1, <3>2
  <2>5. CASE job[j].user # u
    <3>1. Cardinality(JobsIn({"create"}, u)) = Cardinality(JobsIn({"create"}, u))'
      <4>1. JobGoto(j, Idle)
        BY DEF IssueCreate, JobFinish
      <4>2. QED
        BY <2>5, <4>1, JobMoves
    <3>2. UsableLinks(u)' = UsableLinks(u)
      <4>1. n \notin UsableLinks(u)'
        BY <2>3, <2>5
      <4>2. QED
        BY <2>2, <4>1, NoneApart
    <3>3. QED
      BY <2>1, <3>1, <3>2
  <2>6. QED
    BY <2>4, <2>5
<1>7. QED
  BY <1>2, <1>3, <1>4, <1>5, <1>6 DEF LinksInv

\* A link is consumed: it was good, so this is its first use, and its owner has
\* one consumed link more.
LEMMA ConsumeKeeps ==
    ASSUME LinksInv, JobTable, NEW j \in Jobs, NEW t \in LinkIds, NEW pc, pc # "create", Consume(j, t, pc)
    PROVE  /\ LinksInv'
           /\ links[t].owner \in Users
           /\ \A u \in Users :
                 IF u = links[t].owner
                 THEN Cardinality(Consumed(u))' = Cardinality(Consumed(u)) + 1
                 ELSE Consumed(u)' = Consumed(u)
<1>1. \A s \in LinkIds : links[s] \in Link
  BY LinkSets DEF LinksInv
<1>2. /\ links' = [s \in LinkIds |-> links'[s]]
      /\ \A s \in LinkIds : s # t => links'[s] = links[s]
      /\ links'[t] = [links[t] EXCEPT !.isUsed = TRUE, !.uses = @ + 1]
  BY DEF Consume, MarkUsed, LinkIds
<1>3. links[t].uses = 0 /\ links[t].isUsed = FALSE
  BY <1>1 DEF Consume, Usable, LinksInv, Link
<1>4. /\ links'[t] \in Link /\ links'[t].owner = links[t].owner
      /\ links'[t].isUsed = TRUE /\ links'[t].uses = 1
  <2>1. links'[t] = [links[t] EXCEPT !.isUsed = TRUE, !.uses = 1]
    BY <1>2, <1>3
  <2>2. QED
    BY <1>1, <2>1, ConsumedRow
<1>5. links' \in Seq(Link) /\ LinkIds' = LinkIds
  <2>1. \A s \in LinkIds : links'[s] \in Link
    BY <1>1, <1>2, <1>4
  <2>2. QED
    BY <1>2, <2>1, LinksRewritten DEF LinkIds, LinksInv
<1>6. links[t].owner \in Users
  BY <1>1 DEF Link
<1>7. ASSUME NEW u \in Users
      PROVE  /\ Consumed(u) \ {t} = Consumed(u)' \ {t}
             /\ t \notin Consumed(u)
             /\ t \in Consumed(u)' <=> u = links[t].owner
             /\ UsableLinks(u) \ {t} = UsableLinks(u)' \ {t}
             /\ t \notin UsableLinks(u)'
  <2>1. /\ Consumed(u) \ {t} = Consumed(u)' \ {t}
        /\ UsableLinks(u) \ {t} = UsableLinks(u)' \ {t}
    BY <1>2, <1>5 DEF Consumed, UsableLinks
  <2>2. t \notin Consumed(u) /\ t \notin UsableLinks(u)'
    BY <1>3, <1>4 DEF Consumed, UsableLinks
  <2>3. t \in Consumed(u)' <=> u = links[t].owner
    BY <1>4, <1>5 DEF Consumed
  <2>4. QED
    BY <2>1, <2>2, <2>3
<1>8. ASSUME NEW u \in Users
      PROVE  (Cardinality(UsableLinks(u)) + Cardinality(JobsIn({"create"}, u)) <= Cardinality(Jobs))'
  <2>1. IsFiniteSet(UsableLinks(u))
    BY LinkSets DEF LinksInv
  <2>2. /\ Cardinality(UsableLinks(u)') <= Cardinality(UsableLinks(u))
        /\ Cardinality(UsableLinks(u)') \in Nat /\ Cardinality(UsableLinks(u)) \in Nat
    BY <1>7, <2>1, OneApart
  <2>3. /\ Cardinality(JobsIn({"create"}, u)) = Cardinality(JobsIn({"create"}, u))'
        /\ Cardinality(JobsIn({"create"}, u)) \in Nat
    BY JobMoves DEF Consume
  <2>4. QED
    BY <2>2, <2>3, JobsInFinite DEF LinksInv
<1>9. ASSUME NEW u \in Users, u = links[t].owner
      PROVE  Cardinality(Consumed(u))' = Cardinality(Consumed(u)) + 1
  <2>1. IsFiniteSet(Consumed(u))
    BY LinkSets DEF LinksInv
  <2>2. Consumed(u) \ {t} = Consumed(u)' \ {t} /\ t \notin Consumed(u) /\ t \in Consumed(u)'
    BY <1>7, <1>9
  <2>3. QED
    BY <2>1, <2>2, OneApart
<1>10. ASSUME NEW u \in Users, u # links[t].owner
       PROVE  Consumed(u)' = Consumed(u)
  <2>1. t \notin Consumed(u) /\ t \notin Consumed(u)' /\ Consumed(u) \ {t} = Consumed(u)' \ {t}
    BY <1>7, <1>10
  <2>2. QED
    BY <2>1, NoneApart
<1>11. ASSUME NEW s \in LinkIds
       PROVE  links'[s].uses <= 1 /\ (links'[s].uses > 0 => links'[s].isUsed)
  <2>1. CASE s = t
    BY <1>4, <2>1
  <2>2. CASE s # t
    BY <1>2, <2>2 DEF LinksInv
  <2>3. QED
    BY <2>1, <2>2
<1>12. mailed' \subseteq LinkIds'
  BY <1>5 DEF LinksInv, Consume
<1>13. LinksInv'
  BY <1>5, <1>8, <1>11, <1>12 DEF LinksInv
<1>14. QED
  BY <1>6, <1>9, <1>10, <1>13

\* An expiry consumes nothing and makes no link good.
LEMMA LinkExpireKeeps ==
    ASSUME LinksInv, NEW t \in LinkIds, LinkExpire(t)
    PROVE  LinksInv' /\ \A u \in Users : Consumed(u)' = Consumed(u)
<1>1. \A s \in LinkIds : links[s] \in Link
  BY LinkSets DEF LinksInv
<1>2. /\ links' = [s \in LinkIds |-> links'[s]]
      /\ \A s \in LinkIds : s # t => links'[s] = links[s]
      /\ links'[t] = [links[t] EXCEPT !.isExpired = TRUE]
  BY DEF LinkExpire, LinkIds
<1>3. \A s \in LinkIds : /\ links'[s] \in Link /\ links'[s].owner = links[s].owner
                         /\ links'[s].uses = links[s].uses /\ links'[s].isUsed = links[s].isUsed
  BY <1>1, <1>2 DEF Link
<1>4. links' \in Seq(Link) /\ LinkIds' = LinkIds
  BY <1>2, <1>3, LinksRewritten DEF LinkIds, LinksInv
<1>5. \A u \in Users : /\ Consumed(u)' = Consumed(u)
                       /\ UsableLinks(u)' = UsableLinks(u)
                       /\ JobsIn({"create"}, u)' = JobsIn({"create"}, u)
  BY <1>3, <1>4 DEF Consumed, UsableLinks, JobsIn, LinkExpire
<1>6. QED
  BY <1>3, <1>4, <1>5 DEF LinksInv, LinkExpire

\* Nothing of this module changes.
LEMMA LinksStay ==
    ASSUME LinksInv, UNCHANGED linkVars
    PROVE  LinksInv' /\ \A u \in Users : Consumed(u)' = Consumed(u)
BY DEF LinksInv, linkVars, LinkIds, UsableLinks, Consumed, JobsIn

\* There are no links at the start.
LEMMA LinksInitially ==
    ASSUME LinksInit
    PROVE  LinksInv /\ JobTable
           /\ \A u \in Users : (\A pcs : JobsIn(pcs, u) = {}) /\ Consumed(u) = {}
<1>1. links \in Seq(Link) /\ LinkIds = {}
  BY DEF LinksInit, LinkIds
<1>2. \A u : UsableLinks(u) = {} /\ Consumed(u) = {} /\ \A pcs : JobsIn(pcs, u) = {}
  BY <1>1 DEF LinksInit, UsableLinks, Consumed, JobsIn
<1>3. Cardinality(Jobs) \in Nat
  BY JobsInFinite
<1>4. links \in Seq(Link)
  BY DEF LinksInit
<1>5. \A u \in Users :
         Cardinality(UsableLinks(u)) + Cardinality(JobsIn({"create"}, u)) <= Cardinality(Jobs)
  <2> TAKE u \in Users
  <2>1. UsableLinks(u) = {} /\ JobsIn({"create"}, u) = {}
    BY <1>2
  <2>2. QED
    BY <1>3, <2>1, FS_EmptySet
<1>6. LinksInv
  BY <1>1, <1>4, <1>5 DEF LinksInv, LinksInit
<1>7. JobTable
  BY DEF LinksInit, JobTable
<1>8. QED
  BY <1>2, <1>6, <1>7

-----------------------------------------------------------------------------
(***************************************************************************)
(* E-mail verification: the invariant.                                     *)
(***************************************************************************)

\* Every request between consuming a link and marking the user stands for a
\* consumed link that has marked nobody yet; every one about to be recorded,
\* for a mark without an entry; and once a user is verified no further request
\* gets as far as the mark.
MarkLedger(u) ==
    /\ marked[u] + Cardinality(JobsIn({"verify.find", "verify.mark"}, u)) <= Cardinality(Consumed(u))
    /\ audited[u] + Cardinality(JobsIn({"verify.audit"}, u)) <= marked[u]
    /\ marked[u] + Cardinality(JobsIn({"verify.mark"}, u)) <= Cardinality(Jobs)
    /\ ~verified[u] => marked[u] = 0

VerificationInv == VerificationTypeOK /\ LinksInv /\ \A u \in Users : MarkLedger(u)

\* What the types say of requests and counters.
LEMMA Shapes ==
    ASSUME VerificationTypeOK
    PROVE  /\ JobTable
           /\ \A j \in Jobs : job[j] # Idle => job[j] \in VerificationJob /\ job[j].user \in Users
           /\ \A u \in Users : marked[u] \in Nat /\ audited[u] \in Nat
BY DEF VerificationTypeOK, JobTable, VerificationJob

-----------------------------------------------------------------------------
(***************************************************************************)
(* E-mail verification: types.                                             *)
(***************************************************************************)

\* A request that moves to a state of its type keeps the types.
LEMMA VerificationJobType ==
    ASSUME VerificationTypeOK, NEW j \in Jobs, NEW state \in {Idle} \cup VerificationJob,
           JobGoto(j, state)
    PROVE  job' \in [Jobs -> {Idle} \cup VerificationJob]
BY DEF VerificationTypeOK, JobGoto

\* A request that goes on to its next statement is still for its user.
LEMMA JobAfter ==
    ASSUME VerificationTypeOK, NEW j \in Jobs, job[j] # Idle,
           NEW pc \in {"create", "verify.mark", "verify.audit"}
    PROVE  /\ [job[j] EXCEPT !.pc = pc] \in VerificationJob
           /\ [job[j] EXCEPT !.pc = pc].pc = pc
           /\ [job[j] EXCEPT !.pc = pc].user = job[j].user
BY Shapes DEF VerificationJob

\* Account operations keep the users table typed.
LEMMA AccountsTyped ==
    ASSUME AccountTypeOK, AccountNext \/ UNCHANGED accountVars
    PROVE  AccountTypeOK'
BY AccountTypeStep DEF AccountTypeOK, accountVars

-----------------------------------------------------------------------------
(***************************************************************************)
(* Steps of a request that neither verify nor begin to.                    *)
(***************************************************************************)

\* A step that touches neither links nor counters changes no balance.
LEMMA PassesBy ==
    ASSUME VerificationInv, LinksInv', \A u \in Users : Consumed(u)' = Consumed(u),
           AccountNext \/ UNCHANGED accountVars,
           UNCHANGED <<marked, audited>>,
           verified' \in [Users -> BOOLEAN], \A u \in Users : verified[u] => verified'[u],
           NEW j \in Jobs, NEW state \in {Idle} \cup VerificationJob, JobGoto(j, state),
           state = Idle \/ state.pc \in {"invalidate", "create"}
    PROVE  VerificationInv'
<1>1. JobTable
  BY Shapes DEF VerificationInv
<1>2. ASSUME NEW u \in Users
      PROVE  MarkLedger(u)'
  <2>1. ASSUME NEW pcs \in {{"verify.find", "verify.mark"}, {"verify.audit"}, {"verify.mark"}}
        PROVE  /\ Cardinality(JobsIn(pcs, u))' <= Cardinality(JobsIn(pcs, u))
               /\ Cardinality(JobsIn(pcs, u))' \in Nat /\ Cardinality(JobsIn(pcs, u)) \in Nat
    <3>1. ~(state # Idle /\ state.pc \in pcs /\ state.user = u)
      BY <2>1
    <3>2. QED
      BY <1>1, <3>1, JobMoves
  <2>2. /\ Cardinality(JobsIn({"verify.find", "verify.mark"}, u))'
              <= Cardinality(JobsIn({"verify.find", "verify.mark"}, u))
        /\ Cardinality(JobsIn({"verify.audit"}, u))' <= Cardinality(JobsIn({"verify.audit"}, u))
        /\ Cardinality(JobsIn({"verify.mark"}, u))' <= Cardinality(JobsIn({"verify.mark"}, u))
        /\ \A pcs \in {{"verify.find", "verify.mark"}, {"verify.audit"}, {"verify.mark"}} :
              Cardinality(JobsIn(pcs, u))' \in Nat /\ Cardinality(JobsIn(pcs, u)) \in Nat
    BY <2>1
  <2>3. /\ Cardinality(Consumed(u))' = Cardinality(Consumed(u))
        /\ Cardinality(Consumed(u)) \in Nat /\ Cardinality(Jobs) \in Nat
        /\ marked[u] \in Nat /\ audited[u] \in Nat
    BY LinkSets, JobsInFinite, Shapes DEF VerificationInv, LinksInv
  <2>4. MarkLedger(u)
    BY DEF VerificationInv
  <2>5. QED
    BY <2>2, <2>3, <2>4 DEF MarkLedger
<1>3. VerificationTypeOK'
  BY VerificationJobType, AccountsTyped
     DEF VerificationInv, VerificationTypeOK, LinksInv
<1>4. QED
  BY <1>2, <1>3 DEF VerificationInv

\* Issuing a link keeps the balance.
LEMMA IssuingStep ==
    ASSUME VerificationInv, NEW j \in Jobs, NEW u \in Users, IssueStart(j, u),
           AccountNext \/ UNCHANGED accountVars,
           UNCHANGED <<verified, marked, audited>>
    PROVE  VerificationInv'
<1>1. LinksInv' /\ \A v \in Users : Consumed(v)' = Consumed(v)
  BY IssueStartKeeps, Shapes DEF VerificationInv
<1>2. [pc |-> "invalidate", user |-> u] \in VerificationJob
  BY DEF VerificationJob
<1>3. QED
  BY <1>1, <1>2, PassesBy DEF IssueStart, VerificationInv, VerificationTypeOK

\* Invalidating the links of a user consumes none.
LEMMA InvalidateStep ==
    ASSUME VerificationInv, NEW j \in Jobs, IssueInvalidate(j),
           UNCHANGED <<accountVars, verified, marked, audited>>
    PROVE  VerificationInv'
<1>1. PICK state \in VerificationJob :
         JobGoto(j, state) /\ state.pc = "create" /\ state.user = job[j].user
  BY JobAfter DEF IssueInvalidate, JobAt, VerificationInv
<1>2. JobTable /\ job[j].user \in Users
  BY Shapes DEF VerificationInv, IssueInvalidate, JobAt
<1>3. LinksInv' /\ \A v \in Users : Consumed(v)' = Consumed(v)
  BY <1>1, <1>2, IssueInvalidateKeeps DEF VerificationInv
<1>4. verified' \in [Users -> BOOLEAN] /\ \A u \in Users : verified[u] => verified'[u]
  BY DEF VerificationInv, VerificationTypeOK
<1>5. QED
  BY <1>1, <1>3, <1>4, PassesBy

\* A request that stops early has paid for nothing.
LEMMA EndingStep ==
    ASSUME VerificationInv, NEW j \in Jobs, JobFinish(j), LinksInv',
           \A v \in Users : Consumed(v)' = Consumed(v),
           UNCHANGED <<accountVars, verified, marked, audited>>
    PROVE  VerificationInv'
<1>1. verified' \in [Users -> BOOLEAN] /\ \A u \in Users : verified[u] => verified'[u]
  BY DEF VerificationInv, VerificationTypeOK
<1>2. QED
  BY <1>1, PassesBy DEF JobFinish

\* A new link is not consumed.
LEMMA CreateStep ==
    ASSUME VerificationInv, NEW j \in Jobs, IssueCreate(j),
           UNCHANGED <<accountVars, verified, marked, audited>>
    PROVE  VerificationInv'
<1>1. JobTable /\ job[j].user \in Users
  BY Shapes DEF VerificationInv, IssueCreate, JobAt
<1>2. LinksInv' /\ \A v \in Users : Consumed(v)' = Consumed(v)
  BY <1>1, IssueCreateKeeps DEF VerificationInv
<1>3. QED
  BY <1>2, EndingStep DEF IssueCreate

\* A request that dies costs its link and marks nobody.
LEMMA AbortStep ==
    ASSUME VerificationInv, NEW j \in Jobs, JobFinish(j),
           UNCHANGED <<accountVars, links, mailed, verified, marked, audited>>
    PROVE  VerificationInv'
<1>1. LinksInv' /\ \A v \in Users : Consumed(v)' = Consumed(v)
  BY JobAbortKeeps, Shapes DEF VerificationInv, JobFinish
<1>2. QED
  BY <1>1, EndingStep

-----------------------------------------------------------------------------
(***************************************************************************)
(* verifyEmail.                                                            *)
(***************************************************************************)

\* A link consumed pays for one mark.
LEMMA VerifyConsumeStep ==
    ASSUME VerificationInv, NEW j \in Jobs, NEW t \in LinkIds, VerifyConsume(j, t)
    PROVE  VerificationInv'
<1> DEFINE v == links[t].owner
           state == [pc |-> "verify.find", user |-> v]
<1>1. Consume(j, t, "verify.find") /\ UNCHANGED <<accountVars, verified, marked, audited>>
  BY DEF VerifyConsume
<1>2. JobTable /\ job[j] = Idle /\ JobGoto(j, state)
  BY <1>1, Shapes DEF Consume, VerificationInv
<1>3. /\ LinksInv' /\ v \in Users
      /\ \A u \in Users : IF u = v THEN Cardinality(Consumed(u))' = Cardinality(Consumed(u)) + 1
                                   ELSE Consumed(u)' = Consumed(u)
  BY <1>1, <1>2, ConsumeKeeps DEF VerificationInv
<1>4. state \in VerificationJob /\ state.user = v /\ state.pc = "verify.find"
  BY <1>3 DEF VerificationJob
<1> HIDE DEF state
<1>5. ASSUME NEW u \in Users
      PROVE  MarkLedger(u)'
  <2> DEFINE find == {"verify.find", "verify.mark"}
  <2>1. /\ Cardinality(JobsIn({"verify.mark"}, u))' = Cardinality(JobsIn({"verify.mark"}, u))
        /\ Cardinality(JobsIn({"verify.audit"}, u))' = Cardinality(JobsIn({"verify.audit"}, u))
    BY <1>2, <1>4, JobMoves
  <2>2. /\ Cardinality(JobsIn(find, u)) \in Nat
        /\ u = v => Cardinality(JobsIn(find, u))' \in {Cardinality(JobsIn(find, u)),
                                                       Cardinality(JobsIn(find, u)) + 1}
        /\ u # v => Cardinality(JobsIn(find, u))' = Cardinality(JobsIn(find, u))
    BY <1>2, <1>4, JobMoves
  <2>3. /\ Cardinality(Consumed(u)) \in Nat /\ marked[u] \in Nat /\ audited[u] \in Nat
        /\ u = v => Cardinality(Consumed(u))' = Cardinality(Consumed(u)) + 1
        /\ u # v => Cardinality(Consumed(u))' = Cardinality(Consumed(u))
    BY <1>3, LinkSets, Shapes DEF VerificationInv, LinksInv
  <2>4. MarkLedger(u) /\ UNCHANGED <<marked, audited, verified>>
    BY <1>1 DEF VerificationInv
  <2>5. QED
    BY <2>1, <2>2, <2>3, <2>4 DEF MarkLedger
<1>6. VerificationTypeOK'
  BY <1>1, <1>2, <1>3, <1>4, VerificationJobType, AccountsTyped
     DEF VerificationInv, VerificationTypeOK, LinksInv
<1>7. QED
  BY <1>3, <1>5, <1>6 DEF VerificationInv

\* findById sees the row unverified, so it was never marked.
LEMMA FindStep ==
    ASSUME VerificationInv, NEW j \in Jobs, VerifyFind(j)
    PROVE  VerificationInv'
<1>1. /\ job[j] # Idle /\ job[j].pc = "verify.find"
      /\ UNCHANGED <<accountVars, links, mailed, verified, marked, audited>>
  BY DEF VerifyFind, JobAt
<1>2. CASE JobFinish(j)
  BY <1>1, <1>2, AbortStep
<1>3. CASE ~JobFinish(j)
  <2>1. ~verified[job[j].user]
    BY <1>3 DEF VerifyFind
  <2>2. PICK state \in VerificationJob :
           JobGoto(j, state) /\ state.pc = "verify.mark" /\ state.user = job[j].user
    BY <1>1, <1>3, JobAfter DEF VerifyFind, VerificationInv
  <2>3. JobTable /\ job[j].user \in Users /\ Idle \notin {job[j]}
    BY <1>1, Shapes DEF VerificationInv
  <2>4. LinksInv' /\ \A v \in Users : Consumed(v)' = Consumed(v)
    BY <1>1, <2>2, <2>3, JobAbortKeeps DEF VerificationInv
  <2>5. ASSUME NEW u \in Users
        PROVE  MarkLedger(u)'
    <3>1. /\ Cardinality(JobsIn({"verify.find", "verify.mark"}, u))'
                <= Cardinality(JobsIn({"verify.find", "verify.mark"}, u))
          /\ Cardinality(JobsIn({"verify.find", "verify.mark"}, u))' \in Nat
      BY <1>1, <2>2, <2>3, JobMoves
    <3>2. Cardinality(JobsIn({"verify.audit"}, u))' = Cardinality(JobsIn({"verify.audit"}, u))
      BY <1>1, <2>2, <2>3, JobMoves
    <3>3. /\ Cardinality(JobsIn({"verify.mark"}, u))' \in Nat
          /\ Cardinality(JobsIn({"verify.mark"}, u))' <= Cardinality(Jobs)
          /\ u # job[j].user =>
                Cardinality(JobsIn({"verify.mark"}, u))' = Cardinality(JobsIn({"verify.mark"}, u))
      <4>1. IsFiniteSet(JobsIn({"verify.mark"}, u)') /\ JobsIn({"verify.mark"}, u)' \subseteq Jobs
        BY LinksAssumption, FS_Subset DEF JobsIn
      <4>2. QED
        BY <4>1, <2>2, <2>3, JobsElsewhere, LinksAssumption, FS_Subset, FS_CardinalityType
    <3>4. /\ Cardinality(JobsIn({"verify.find", "verify.mark"}, u)) \in Nat
          /\ Cardinality(Consumed(u)) \in Nat /\ Cardinality(Jobs) \in Nat
          /\ marked[u] \in Nat /\ audited[u] \in Nat
          /\ Cardinality(Consumed(u))' = Cardinality(Consumed(u))
      BY <2>4, LinkSets, JobsInFinite, Shapes DEF VerificationInv, LinksInv
    <3>5. MarkLedger(u) /\ UNCHANGED <<marked, audited, verified>>
      BY <1>1 DEF VerificationInv
    <3>6. marked[job[j].user] = 0
      BY <2>1, <2>3 DEF VerificationInv, MarkLedger
    <3>7. CASE u = job[j].user
      BY <3>1, <3>2, <3>3, <3>4, <3>5, <3>6, <3>7 DEF MarkLedger
    <3>8. CASE u # job[j].user
      BY <3>1, <3>2, <3>3, <3>4, <3>5, <3>8 DEF MarkLedger
    <3>9. QED
      BY <3>7, <3>8
  <2>6. VerificationTypeOK'
    BY <1>1, <2>2, <2>4, VerificationJobType, AccountsTyped
       DEF VerificationInv, VerificationTypeOK, LinksInv
  <2>7. QED
    BY <2>4, <2>5, <2>6 DEF VerificationInv
<1>4. QED
  BY <1>2, <1>3

\* A mark spends what its link paid for, the first time only.
LEMMA MarkStep ==
    ASSUME VerificationInv, NEW j \in Jobs, VerifyMark(j)
    PROVE  VerificationInv'
<1> DEFINE v == job[j].user
<1>1. /\ job[j] # Idle /\ job[j].pc = "verify.mark"
      /\ UNCHANGED <<accountVars, links, mailed, audited>>
  BY DEF VerifyMark, JobAt
<1>2. PICK state \in VerificationJob :
         JobGoto(j, state) /\ state.pc = "verify.audit" /\ state.user = v
  BY <1>1, JobAfter DEF VerifyMark, VerificationInv
<1>3. JobTable /\ v \in Users
  BY <1>1, Shapes DEF VerificationInv
<1>4. state # Idle \/ state = Idle
  OBVIOUS
<1>5. LinksInv' /\ \A u \in Users : Consumed(u)' = Consumed(u)
  BY <1>1, <1>2, <1>3, JobAbortKeeps DEF VerificationInv
<1>6. /\ marked' \in [Users -> Nat] /\ verified' \in [Users -> BOOLEAN]
      /\ marked'[v] = marked[v] + 1 /\ verified'[v] = TRUE
      /\ \A u \in Users : u # v => marked'[u] = marked[u] /\ verified'[u] = verified[u]
  BY <1>3 DEF VerifyMark, VerificationInv, VerificationTypeOK
<1>7. ASSUME NEW u \in Users
      PROVE  MarkLedger(u)'
  <2> DEFINE find == {"verify.find", "verify.mark"}
  <2>1. CASE u # v
    <3>1. \A pcs : JobsIn(pcs, u)' = JobsIn(pcs, u)
      BY <1>2, <1>3, <2>1, JobsElsewhere
    <3>2. MarkLedger(u) /\ audited' = audited
      BY <1>1 DEF VerificationInv
    <3>3. QED
      BY <1>5, <1>6, <2>1, <3>1, <3>2 DEF MarkLedger
  <2>2. CASE u = v
    <3>1. /\ Cardinality(JobsIn(find, u)) = Cardinality(JobsIn(find, u))' + 1
          /\ Cardinality(JobsIn(find, u))' \in Nat
      BY <1>1, <1>2, <1>3, <2>2, JobMoves
    <3>2. /\ Cardinality(JobsIn({"verify.mark"}, u)) = Cardinality(JobsIn({"verify.mark"}, u))' + 1
          /\ Cardinality(JobsIn({"verify.mark"}, u))' \in Nat
      BY <1>1, <1>2, <1>3, <2>2, JobMoves
    <3>3. /\ Cardinality(JobsIn({"verify.audit"}, u))' \in
                {Cardinality(JobsIn({"verify.audit"}, u)), Cardinality(JobsIn({"verify.audit"}, u)) + 1}
          /\ Cardinality(JobsIn({"verify.audit"}, u)) \in Nat
      BY <1>1, <1>2, <1>3, <2>2, JobMoves
    <3>4. /\ Cardinality(Consumed(u)) \in Nat /\ Cardinality(Jobs) \in Nat
          /\ marked[u] \in Nat /\ audited[u] \in Nat
          /\ Cardinality(Consumed(u))' = Cardinality(Consumed(u))
      BY <1>5, LinkSets, JobsInFinite, Shapes DEF VerificationInv, LinksInv
    <3>5. MarkLedger(u) /\ audited' = audited
      BY <1>1 DEF VerificationInv
    <3>6. QED
      BY <1>6, <2>2, <3>1, <3>2, <3>3, <3>4, <3>5 DEF MarkLedger
  <2>3. QED
    BY <2>1, <2>2
<1>8. VerificationTypeOK'
  BY <1>1, <1>2, <1>5, <1>6, VerificationJobType, AccountsTyped
     DEF VerificationInv, VerificationTypeOK, LinksInv
<1>9. QED
  BY <1>5, <1>7, <1>8 DEF VerificationInv

\* An entry follows a mark.
LEMMA AuditStep ==
    ASSUME VerificationInv, NEW j \in Jobs, VerifyAudit(j)
    PROVE  VerificationInv'
<1> DEFINE v == job[j].user
<1>1. /\ job[j] # Idle /\ job[j].pc = "verify.audit" /\ JobGoto(j, Idle)
      /\ UNCHANGED <<accountVars, links, mailed, verified, marked>>
  BY DEF VerifyAudit, JobAt, JobFinish
<1>2. JobTable /\ v \in Users
  BY <1>1, Shapes DEF VerificationInv
<1>3. LinksInv' /\ \A u \in Users : Consumed(u)' = Consumed(u)
  BY <1>1, <1>2, JobAbortKeeps DEF VerificationInv
<1>4. PICK written \in {0, 1} : audited' = [audited EXCEPT ![v] = @ + written]
  BY DEF VerifyAudit
<1>5. /\ audited' \in [Users -> Nat]
      /\ audited'[v] = audited[v] + written
      /\ \A u \in Users : u # v => audited'[u] = audited[u]
  BY <1>2, <1>4 DEF VerificationInv, VerificationTypeOK
<1>6. ASSUME NEW u \in Users
      PROVE  MarkLedger(u)'
  <2> DEFINE find == {"verify.find", "verify.mark"}
  <2>1. /\ Cardinality(JobsIn(find, u))' = Cardinality(JobsIn(find, u))
        /\ Cardinality(JobsIn({"verify.mark"}, u))' = Cardinality(JobsIn({"verify.mark"}, u))
    BY <1>1, <1>2, JobMoves
  <2>2. /\ Cardinality(JobsIn({"verify.audit"}, u))' \in Nat
        /\ u = v => Cardinality(JobsIn({"verify.audit"}, u)) = Cardinality(JobsIn({"verify.audit"}, u))' + 1
        /\ u # v => Cardinality(JobsIn({"verify.audit"}, u)) = Cardinality(JobsIn({"verify.audit"}, u))'
    BY <1>1, <1>2, JobMoves
  <2>3. marked[u] \in Nat /\ audited[u] \in Nat /\ Cardinality(Consumed(u))' = Cardinality(Consumed(u))
    BY <1>3, Shapes DEF VerificationInv
  <2>4. MarkLedger(u) /\ UNCHANGED <<marked, verified>>
    BY <1>1 DEF VerificationInv
  <2>5. QED
    BY <1>4, <1>5, <2>1, <2>2, <2>3, <2>4 DEF MarkLedger
<1>7. VerificationTypeOK'
  BY <1>1, <1>3, <1>5, VerificationJobType, AccountsTyped
     DEF VerificationInv, VerificationTypeOK, LinksInv
<1>8. QED
  BY <1>3, <1>6, <1>7 DEF VerificationInv

-----------------------------------------------------------------------------
(***************************************************************************)
(* Steps outside the requests for links.                                   *)
(***************************************************************************)

\* Accounts and expiry change no balance.
LEMMA OutsideStep ==
    ASSUME VerificationInv, AccountNext \/ UNCHANGED accountVars, UNCHANGED <<job, marked, audited>>,
           LinksInv', \A u \in Users : Consumed(u)' = Consumed(u),
           verified' \in [Users -> BOOLEAN], \A u \in Users : verified[u] => verified'[u]
    PROVE  VerificationInv'
<1>1. \A pcs, u : JobsIn(pcs, u)' = JobsIn(pcs, u)
  BY DEF JobsIn
<1>2. \A u \in Users : MarkLedger(u)'
  BY <1>1 DEF VerificationInv, MarkLedger
<1>3. VerificationTypeOK'
  BY AccountsTyped
     DEF VerificationInv, VerificationTypeOK, LinksInv
<1>4. QED
  BY <1>2, <1>3 DEF VerificationInv

\* Every step keeps types and balance.
LEMMA VerificationInvStep ==
    ASSUME VerificationInv, VerificationNext
    PROVE  VerificationInv'
<1>1. verified \in [Users -> BOOLEAN]
  BY DEF VerificationInv, VerificationTypeOK
<1>2. ASSUME NEW j \in Jobs, NEW u \in Users, Resend(j, u)
      PROVE  VerificationInv'
  BY <1>2, IssuingStep DEF Resend
<1>3. ASSUME NEW j \in Jobs, NEW t \in LinkIds, VerifyConsume(j, t)
      PROVE  VerificationInv'
  BY <1>3, VerifyConsumeStep
<1>4. ASSUME NEW j \in Jobs, JobStep(j)
      PROVE  VerificationInv'
  BY <1>4, InvalidateStep, CreateStep, FindStep, MarkStep, AuditStep DEF JobStep
<1>5. ASSUME NEW j \in Jobs, JobAbort(j), UNCHANGED <<accountVars, verified, marked, audited>>
      PROVE  VerificationInv'
  BY <1>5, AbortStep DEF JobAbort
<1>6. ASSUME NEW j \in Jobs, NEW a \in Ops, RegisterInsert(a, j)
      PROVE  VerificationInv'
  <2>1. CreateInsert(a) /\ AccountNext /\ UNCHANGED <<verified, marked, audited>>
    BY <1>6 DEF RegisterInsert, AccountNext
  <2>2. CASE UNCHANGED linkVars
    <3>1. LinksInv' /\ \A u \in Users : Consumed(u)' = Consumed(u)
      BY <2>2, LinksStay DEF VerificationInv
    <3>2. QED
      BY <1>1, <2>1, <2>2, <3>1, OutsideStep DEF linkVars
  <2>3. CASE IssueStart(j, op[a].user)
    <3>1. op[a].user \in Users
      BY <2>1 DEF CreateInsert, VerificationInv, VerificationTypeOK, AccountTypeOK, CreateOp, StatusOp
    <3>2. QED
      BY <2>1, <2>3, <3>1, IssuingStep
  <2>4. QED
    BY <1>6, <2>2, <2>3 DEF RegisterInsert
<1>7. ASSUME NEW t \in LinkIds, LinkExpire(t), UNCHANGED <<accountVars, verified, marked, audited>>
      PROVE  VerificationInv'
  <2>1. LinksInv' /\ \A u \in Users : Consumed(u)' = Consumed(u)
    BY <1>7, LinkExpireKeeps DEF VerificationInv
  <2>2. QED
    BY <1>1, <1>7, <2>1, OutsideStep DEF LinkExpire
<1>8. ASSUME NEW a \in Ops, AdminInsert(a)
      PROVE  VerificationInv'
  <2>1. AccountNext /\ UNCHANGED <<linkVars, marked, audited>>
    BY <1>8 DEF AdminInsert, AccountNext
  <2>2. LinksInv' /\ \A u \in Users : Consumed(u)' = Consumed(u)
    BY <2>1, LinksStay DEF VerificationInv
  <2>3. verified' \in [Users -> BOOLEAN] /\ \A u \in Users : verified[u] => verified'[u]
    BY <1>1, <1>8 DEF AdminInsert
  <2>4. QED
    BY <2>1, <2>2, <2>3, OutsideStep DEF linkVars
<1>9. ASSUME NEW a \in Ops, AccountStepButInsert(a), UNCHANGED besideAccounts
      PROVE  VerificationInv'
  <2>1. AccountNext /\ UNCHANGED linkVars /\ UNCHANGED <<verified, marked, audited>>
    BY <1>9 DEF besideAccounts, AccountNext
  <2>2. LinksInv' /\ \A u \in Users : Consumed(u)' = Consumed(u)
    BY <2>1, LinksStay DEF VerificationInv
  <2>3. QED
    BY <1>1, <2>1, <2>2, OutsideStep DEF linkVars
<1>10. QED
  BY <1>2, <1>3, <1>4, <1>5, <1>6, <1>7, <1>8, <1>9 DEF VerificationNext

\* The counts of marks, entries and links hold of every reachable state.
THEOREM VerificationInvariant == VerificationSpec => []VerificationInv
<1>1. VerificationInit => VerificationInv
  <2> SUFFICES ASSUME VerificationInit PROVE VerificationInv
    OBVIOUS
  <2>1. LinksInv /\ \A u \in Users : Consumed(u) = {} /\ \A pcs : JobsIn(pcs, u) = {}
    BY LinksInitially DEF VerificationInit
  <2>2. ASSUME NEW u \in Users
        PROVE  MarkLedger(u)
    <3>1. /\ Cardinality(Consumed(u)) = 0
          /\ Cardinality(JobsIn({"verify.find", "verify.mark"}, u)) = 0
          /\ Cardinality(JobsIn({"verify.audit"}, u)) = 0
          /\ Cardinality(JobsIn({"verify.mark"}, u)) = 0
      BY <2>1, FS_EmptySet
    <3>2. QED
      BY <3>1, JobsInFinite DEF MarkLedger, VerificationInit
  <2>3. VerificationTypeOK
    BY <2>1, AccountTypeInit DEF VerificationInit, LinksInit, VerificationTypeOK, LinksInv
  <2>4. QED
    BY <2>1, <2>2, <2>3 DEF VerificationInv
<1>2. VerificationInv /\ UNCHANGED verificationVars => VerificationInv'
  <2> SUFFICES ASSUME VerificationInv, UNCHANGED verificationVars PROVE VerificationInv'
    OBVIOUS
  <2>1. LinksInv' /\ \A u \in Users : Consumed(u)' = Consumed(u)
    BY LinksStay DEF VerificationInv, verificationVars, besideAccounts
  <2>2. QED
    BY <2>1, OutsideStep DEF VerificationInv, VerificationTypeOK, verificationVars, besideAccounts, linkVars
<1>3. QED
  BY <1>1, <1>2, VerificationInvStep, PTL DEF VerificationSpec

-----------------------------------------------------------------------------

\* Every variable keeps its type: no request is for a user that is not there.
THEOREM VerificationTypeCorrect == VerificationSpec => []VerificationTypeOK
BY VerificationInvariant, PTL DEF VerificationInv

\* However many requests carry one link at once, it is consumed once.
THEOREM LinksWorkOnce == VerificationSpec => []ConsumedOnce
<1>1. VerificationInv => ConsumedOnce
  BY DEF VerificationInv, LinksInv, ConsumedOnce
<1>2. QED
  BY <1>1, VerificationInvariant, PTL

\* A user has no more good links than requests can overlap, however often a
\* link is asked for.
THEOREM GoodLinksBounded == VerificationSpec => []LinksBoundedByOverlap
<1>1. VerificationInv => LinksBoundedByOverlap
  <2> SUFFICES ASSUME VerificationInv, NEW u \in Users PROVE Cardinality(UsableLinks(u)) <= Cardinality(Jobs)
    BY DEF LinksBoundedByOverlap
  <2>1. /\ Cardinality(UsableLinks(u)) + Cardinality(JobsIn({"create"}, u)) <= Cardinality(Jobs)
        /\ Cardinality(UsableLinks(u)) \in Nat /\ Cardinality(JobsIn({"create"}, u)) \in Nat
        /\ Cardinality(Jobs) \in Nat
    BY LinkSets, JobsInFinite DEF VerificationInv, LinksInv
  <2>2. QED
    BY <2>1
<1>2. QED
  BY <1>1, VerificationInvariant, PTL

\* verifyEmail marks a user at most once for each consumed link of that user.
THEOREM MarksNeedOwnLinks == VerificationSpec => []MarkedByOwnLinks
<1>1. VerificationInv => MarkedByOwnLinks
  <2> SUFFICES ASSUME VerificationInv, NEW u \in Users PROVE marked[u] <= Cardinality(Consumed(u))
    BY DEF MarkedByOwnLinks, Consumed
  <2>1. /\ marked[u] + Cardinality(JobsIn({"verify.find", "verify.mark"}, u)) <= Cardinality(Consumed(u))
        /\ marked[u] \in Nat /\ Cardinality(Consumed(u)) \in Nat
        /\ Cardinality(JobsIn({"verify.find", "verify.mark"}, u)) \in Nat
    BY LinkSets, JobsInFinite, Shapes DEF VerificationInv, MarkLedger, LinksInv
  <2>2. QED
    BY <2>1
<1>2. QED
  BY <1>1, VerificationInvariant, PTL

\* A user is marked and recorded again only by requests that overlap.
THEOREM MarkedAgainByOverlap == VerificationSpec => []VerifiedAgainOnlyByOverlap
<1>1. VerificationInv => VerifiedAgainOnlyByOverlap
  <2> SUFFICES ASSUME VerificationInv, NEW u \in Users
               PROVE  marked[u] <= Cardinality(Jobs) /\ audited[u] <= marked[u]
    BY DEF VerifiedAgainOnlyByOverlap
  <2>1. /\ marked[u] + Cardinality(JobsIn({"verify.mark"}, u)) <= Cardinality(Jobs)
        /\ audited[u] + Cardinality(JobsIn({"verify.audit"}, u)) <= marked[u]
    BY DEF VerificationInv, MarkLedger
  <2>2. /\ marked[u] \in Nat /\ audited[u] \in Nat /\ Cardinality(Jobs) \in Nat
        /\ Cardinality(JobsIn({"verify.mark"}, u)) \in Nat
        /\ Cardinality(JobsIn({"verify.audit"}, u)) \in Nat
    BY JobsInFinite, Shapes DEF VerificationInv
  <2>3. QED
    BY <2>1, <2>2
<1>2. QED
  BY <1>1, VerificationInvariant, PTL

-----------------------------------------------------------------------------
(***************************************************************************)
(* Password reset: the invariant.                                          *)
(***************************************************************************)

\* The resets of u whose new password is about to be written.
Resetting(u) == {r \in Requests : At(r, "reset.write") /\ req[r].user = u}

\* Every reset between consuming its link and writing the password stands for
\* a consumed link that has changed nothing yet.
Ledger(u) ==
    changed[u] + Cardinality(JobsIn({"reset.find"}, u)) + Cardinality(Resetting(u))
        <= Cardinality(Consumed(u))

ResetInv ==
    /\ Inv
    /\ LinksInv
    /\ ResetTypeOK
    /\ \A u \in Users : Ledger(u)

\* What the types say of requests and counters.
LEMMA ResetShapes ==
    ASSUME ResetTypeOK
    PROVE  /\ JobTable
           /\ \A j \in Jobs : job[j] # Idle => job[j] \in ResetJob /\ job[j].user \in Users
           /\ \A u \in Users : changed[u] \in Nat
BY DEF ResetTypeOK, JobTable, ResetJob

\* Resets about to write are finitely many.
LEMMA ResettingFinite ==
    ASSUME NEW u
    PROVE  IsFiniteSet(Resetting(u)) /\ Cardinality(Resetting(u)) \in Nat
BY SessionsAssumption, FS_Subset, FS_CardinalityType DEF Resetting

\* How their number changes when one request moves.
LEMMA ResettingMoves ==
    ASSUME TypeOK, NEW r \in Requests, NEW state, Goto(r, state), NEW u
    PROVE  LET there == At(r, "reset.write") /\ req[r].user = u
               here  == state # Idle /\ state.pc = "reset.write" /\ state.user = u
               n == Cardinality(Resetting(u))
               m == Cardinality(Resetting(u))'
           IN  /\ n \in Nat /\ m \in Nat
               /\ there /\ here => m = n
               /\ ~there /\ ~here => m = n
               /\ there /\ ~here => n = m + 1
               /\ ~there /\ here => m = n + 1
<1>1. /\ req'[r] = state
      /\ \A q \in Requests \ {r} : req'[q] = req[q]
  BY DEF TypeOK, Goto
<1>2. Resetting(u) \ {r} = Resetting(u)' \ {r}
  BY <1>1 DEF Resetting, At
<1>3. /\ r \in Resetting(u) <=> At(r, "reset.write") /\ req[r].user = u
      /\ r \in Resetting(u)' <=> state # Idle /\ state.pc = "reset.write" /\ state.user = u
  BY <1>1 DEF Resetting, At
<1>4. QED
  BY <1>2, <1>3, ResettingFinite, OneApart

\* A request that moves to a state of its type keeps the types.
LEMMA JobType ==
    ASSUME ResetTypeOK, NEW j \in Jobs, NEW state \in {Idle} \cup ResetJob, JobGoto(j, state)
    PROVE  job' \in [Jobs -> {Idle} \cup ResetJob]
BY DEF ResetTypeOK, JobGoto

\* A step of the sessions beside the links: no reset comes nearer its write.
LEMMA SessionsPassBy ==
    ASSUME ResetInv, Inv', UNCHANGED <<linkVars, changed>>,
           \A u \in Users : Cardinality(Resetting(u))' <= Cardinality(Resetting(u))
    PROVE  ResetInv'
<1>1. LinksInv' /\ \A u \in Users : Consumed(u)' = Consumed(u)
  BY LinksStay DEF ResetInv
<1>2. ResetTypeOK'
  BY <1>1 DEF ResetInv, Inv, ResetTypeOK, LinksInv, linkVars
<1>3. ASSUME NEW u \in Users
      PROVE  Ledger(u)'
  <2>1. JobsIn({"reset.find"}, u)' = JobsIn({"reset.find"}, u)
    BY DEF JobsIn, linkVars
  <2>2. /\ Cardinality(Resetting(u)) \in Nat /\ Cardinality(Resetting(u))' \in Nat
        /\ Cardinality(JobsIn({"reset.find"}, u)) \in Nat /\ changed[u] \in Nat
        /\ Cardinality(Consumed(u)) \in Nat
    <3>1. Cardinality(Resetting(u))' \in Nat
      BY SessionsAssumption, FS_Subset, FS_CardinalityType DEF Resetting
    <3>2. QED
      BY <3>1, ResettingFinite, JobsInFinite, ResetShapes, LinkSets DEF ResetInv, LinksInv
  <2>3. QED
    BY <1>1, <2>1, <2>2 DEF ResetInv, Ledger
<1>4. QED
  BY <1>1, <1>2, <1>3 DEF ResetInv

\* A step of the links beside the sessions.
LEMMA LinksPassBy ==
    ASSUME ResetInv, LinksInv', \A u \in Users : Consumed(u)' = Consumed(u),
           UNCHANGED <<vars, changed>>,
           NEW j \in Jobs, NEW state \in {Idle} \cup ResetJob, JobGoto(j, state),
           state = Idle \/ state.pc \in {"invalidate", "create"}
    PROVE  ResetInv'
<1>1. Inv'
  BY InvStep DEF ResetInv
<1>2. ResetTypeOK'
  BY <1>1, JobType DEF ResetInv, Inv, ResetTypeOK, LinksInv
<1>3. ASSUME NEW u \in Users
      PROVE  Ledger(u)'
  <2>1. Resetting(u)' = Resetting(u)
    BY DEF Resetting, At, vars, sessionVars
  <2>2. /\ Cardinality(JobsIn({"reset.find"}, u))' <= Cardinality(JobsIn({"reset.find"}, u))
        /\ Cardinality(JobsIn({"reset.find"}, u))' \in Nat
        /\ Cardinality(JobsIn({"reset.find"}, u)) \in Nat
    <3>1. ~(state # Idle /\ state.pc \in {"reset.find"} /\ state.user = u)
      OBVIOUS
    <3>2. QED
      BY <3>1, JobMoves, ResetShapes DEF ResetInv
  <2>3. /\ Cardinality(Resetting(u)) \in Nat /\ changed[u] \in Nat
        /\ Cardinality(Consumed(u)) \in Nat
    BY ResettingFinite, ResetShapes, LinkSets DEF ResetInv, LinksInv
  <2>4. QED
    BY <2>1, <2>2, <2>3 DEF ResetInv, Ledger
<1>4. QED
  BY <1>1, <1>2, <1>3 DEF ResetInv

-----------------------------------------------------------------------------
(***************************************************************************)
(* One lemma for each kind of step.                                        *)
(***************************************************************************)

\* Requests for links change no balance.
LEMMA LinkStepKeeps ==
    ASSUME ResetInv, NEW j \in Jobs,
           \/ LinkStep(j)
           \/ \E u \in Users : IssueStart(j, u),
           UNCHANGED <<vars, changed>>
    PROVE  ResetInv'
<1>1. JobTable /\ (job[j] # Idle => job[j] \in ResetJob /\ job[j].user \in Users)
  BY ResetShapes DEF ResetInv
<1>2. ASSUME NEW u \in Users, IssueStart(j, u)
      PROVE  ResetInv'
  <2>1. [pc |-> "invalidate", user |-> u] \in ResetJob
    BY DEF ResetJob
  <2>2. LinksInv' /\ \A v \in Users : Consumed(v)' = Consumed(v)
    BY <1>1, <1>2, IssueStartKeeps DEF ResetInv
  <2>3. QED
    BY <1>2, <2>1, <2>2, LinksPassBy DEF IssueStart
<1>3. CASE IssueInvalidate(j)
  <2> DEFINE state == [job[j] EXCEPT !.pc = "create"]
  <2>1. state \in ResetJob /\ state.pc = "create" /\ state.user = job[j].user
    BY <1>1, <1>3 DEF IssueInvalidate, JobAt, ResetJob
  <2>2. JobGoto(j, state) /\ job[j].user \in Users
    BY <1>1, <1>3 DEF IssueInvalidate, JobAt
  <2> HIDE DEF state
  <2>3. LinksInv' /\ \A v \in Users : Consumed(v)' = Consumed(v)
    BY <1>1, <1>3, <2>1, <2>2, IssueInvalidateKeeps DEF ResetInv
  <2>4. QED
    BY <2>1, <2>2, <2>3, LinksPassBy
<1>4. CASE IssueCreate(j)
  <2>1. LinksInv' /\ \A v \in Users : Consumed(v)' = Consumed(v)
    BY <1>1, <1>4, IssueCreateKeeps DEF ResetInv, IssueCreate, JobAt
  <2>2. QED
    BY <1>4, <2>1, LinksPassBy DEF IssueCreate, JobFinish
<1>5. CASE JobAbort(j)
  <2>1. LinksInv' /\ \A v \in Users : Consumed(v)' = Consumed(v)
    BY <1>1, <1>5, JobAbortKeeps DEF ResetInv, JobAbort, JobFinish
  <2>2. QED
    BY <1>5, <2>1, LinksPassBy DEF JobAbort, JobFinish
<1>6. QED
  BY <1>2, <1>3, <1>4, <1>5 DEF LinkStep

\* The link pays for the request that consumed it.
LEMMA ConsumeStep ==
    ASSUME ResetInv, NEW j \in Jobs, NEW t \in LinkIds, ResetConsume(j, t)
    PROVE  ResetInv'
<1> DEFINE v == links[t].owner
           state == [pc |-> "reset.find", user |-> v]
<1>1. Consume(j, t, "reset.find") /\ UNCHANGED <<vars, changed>>
  BY DEF ResetConsume
<1>2. JobTable /\ job[j] = Idle /\ JobGoto(j, state)
  BY <1>1, ResetShapes DEF Consume, ResetInv
<1>3. /\ LinksInv' /\ v \in Users
      /\ \A u \in Users : IF u = v THEN Cardinality(Consumed(u))' = Cardinality(Consumed(u)) + 1
                                   ELSE Consumed(u)' = Consumed(u)
  BY <1>1, <1>2, ConsumeKeeps DEF ResetInv
<1>4. state \in ResetJob /\ state.user = v
  BY <1>3 DEF ResetJob
<1> HIDE DEF state
<1>5. Inv'
  BY <1>1, InvStep DEF ResetInv
<1>6. ASSUME NEW u \in Users
      PROVE  Ledger(u)'
  <2> DEFINE finding == Cardinality(JobsIn({"reset.find"}, u))
  <2>1. Resetting(u)' = Resetting(u)
    BY <1>1 DEF Resetting, At, vars, sessionVars
  <2>2. /\ finding \in Nat /\ finding' \in Nat
        /\ u = v => finding' <= finding + 1
        /\ u # v => finding' = finding
    BY <1>2, <1>4, JobMoves
  <2>3. /\ Cardinality(Consumed(u)) \in Nat /\ changed[u] \in Nat
        /\ Cardinality(Resetting(u)) \in Nat
        /\ u = v => Cardinality(Consumed(u))' = Cardinality(Consumed(u)) + 1
        /\ u # v => Cardinality(Consumed(u))' = Cardinality(Consumed(u))
    BY <1>3, LinkSets, ResetShapes, ResettingFinite DEF ResetInv, LinksInv
  <2>4. QED
    BY <1>1, <2>1, <2>2, <2>3 DEF ResetInv, Ledger
<1>7. ResetTypeOK'
  BY <1>1, <1>2, <1>3, <1>4, <1>5, JobType DEF ResetInv, Inv, ResetTypeOK, LinksInv
<1>8. QED
  BY <1>3, <1>5, <1>6, <1>7 DEF ResetInv

\* findById hands the request over to the sessions, for the same user.
LEMMA EnterStep ==
    ASSUME ResetInv, NEW j \in Jobs, NEW r \in Requests, NEW p \in Passwords, ResetEnter(j, r, p)
    PROVE  ResetInv'
<1> DEFINE v == job[j].user
<1>1. /\ job[j] # Idle /\ job[j].pc = "reset.find" /\ JobGoto(j, Idle)
      /\ UNCHANGED <<links, mailed, changed>>
  BY DEF ResetEnter, JobAt, JobFinish
<1>2. JobTable /\ v \in Users
  BY <1>1, ResetShapes DEF ResetInv
<1>3. LinksInv' /\ \A u \in Users : Consumed(u)' = Consumed(u)
  BY <1>1, <1>2, JobAbortKeeps DEF ResetInv
<1>4. ResetFind(r, v, p) \/ UNCHANGED vars
  BY DEF ResetEnter
<1>5. Inv'
  <2>1. CASE ResetFind(r, v, p)
    BY <1>2, <2>1, ArriveInv DEF Arrive, ResetInv
  <2>2. CASE UNCHANGED vars
    BY <2>2, InvStep DEF ResetInv
  <2>3. QED
    BY <1>4, <2>1, <2>2
<1>6. ResetTypeOK'
  BY <1>1, <1>3, <1>5, JobType DEF ResetInv, Inv, ResetTypeOK, LinksInv
<1>7. ASSUME NEW u \in Users
      PROVE  Ledger(u)'
  <2> DEFINE finding == Cardinality(JobsIn({"reset.find"}, u))
             writing == Cardinality(Resetting(u))
  <2>1. /\ finding \in Nat /\ finding' \in Nat
        /\ u = v => finding = finding' + 1
        /\ u # v => finding' = finding
    BY <1>1, <1>2, JobMoves
  <2>2. /\ writing \in Nat /\ writing' \in Nat
        /\ u = v => writing' <= writing + 1
        /\ u # v => writing' <= writing
    <3>1. CASE ResetFind(r, v, p)
      <4> DEFINE state == [pc |-> "reset.write", user |-> v, password |-> p]
      <4>1. Goto(r, state) /\ state.user = v
        BY <3>1 DEF ResetFind
      <4> HIDE DEF state
      <4>2. QED
        BY <4>1, ResettingMoves DEF ResetInv, Inv
    <3>2. CASE UNCHANGED vars
      <4>1. Resetting(u)' = Resetting(u)
        BY <3>2 DEF Resetting, At, vars, sessionVars
      <4>2. QED
        BY <4>1, ResettingFinite
    <3>3. QED
      BY <1>4, <3>1, <3>2
  <2>3. Cardinality(Consumed(u)) \in Nat /\ changed[u] \in Nat
    BY LinkSets, ResetShapes DEF ResetInv, LinksInv
  <2>4. QED
    BY <1>1, <1>3, <2>1, <2>2, <2>3 DEF ResetInv, Ledger
<1>8. QED
  BY <1>3, <1>5, <1>6, <1>7 DEF ResetInv

\* The password is written and the link is used up.
LEMMA ChangeStep ==
    ASSUME ResetInv, NEW r \in Requests, ChangePassword(r)
    PROVE  ResetInv'
<1> DEFINE v == req[r].user
           state == [pc |-> "reset.revoke", user |-> v]
<1>1. /\ ResetWrite(r) /\ At(r, "reset.write") /\ Goto(r, state)
      /\ changed' = [changed EXCEPT ![v] = @ + 1] /\ UNCHANGED linkVars
  BY DEF ChangePassword, ResetWrite
<1>2. v \in Users
  BY <1>1, RequestShape DEF ResetInv, Inv, At
<1>3. Inv'
  BY <1>1, ResetWriteInv DEF ResetInv
<1>4. LinksInv' /\ \A u \in Users : Consumed(u)' = Consumed(u)
  BY <1>1, LinksStay DEF ResetInv
<1>5. ResetTypeOK'
  BY <1>1, <1>2, <1>3, <1>4 DEF ResetInv, Inv, ResetTypeOK, LinksInv, linkVars
<1>6. ASSUME NEW u \in Users
      PROVE  Ledger(u)'
  <2> DEFINE writing == Cardinality(Resetting(u))
  <2>1. /\ writing \in Nat /\ writing' \in Nat
        /\ u = v => writing = writing' + 1
        /\ u # v => writing' = writing
    BY <1>1, ResettingMoves DEF ResetInv, Inv
  <2>2. JobsIn({"reset.find"}, u)' = JobsIn({"reset.find"}, u)
    BY <1>1 DEF JobsIn, linkVars
  <2>3. /\ Cardinality(Consumed(u)) \in Nat /\ changed[u] \in Nat
        /\ Cardinality(JobsIn({"reset.find"}, u)) \in Nat
        /\ changed'[u] = IF u = v THEN changed[u] + 1 ELSE changed[u]
    BY <1>1, <1>2, LinkSets, JobsInFinite, ResetShapes DEF ResetInv, LinksInv, ResetTypeOK
  <2>4. QED
    BY <1>4, <2>1, <2>2, <2>3 DEF ResetInv, Ledger
<1>7. QED
  BY <1>3, <1>4, <1>5, <1>6 DEF ResetInv

\* The other session requests start and end beside it: none of them becomes a
\* reset, and those that abort are fewer.
LEMMA SessionsKeep ==
    ASSUME ResetInv, NEW r \in Requests, SessionArrive(r) \/ SessionStep(r) \/ Abort(r),
           UNCHANGED <<linkVars, changed>>
    PROVE  ResetInv'
<1>1. Inv'
  <2>1. CASE SessionArrive(r)
    BY <2>1, ArriveInv DEF SessionArrive, Arrive, ResetInv
  <2>2. CASE SessionStep(r)
    BY <2>2, StepInv DEF SessionStep, Step, ResetInv
  <2>3. CASE Abort(r)
    BY <2>3, OtherInv DEF ResetInv
  <2>4. QED
    BY <2>1, <2>2, <2>3
<1>2. \E state : Goto(r, state) /\ (state = Idle \/ state.pc # "reset.write")
  <2>1. CASE SessionArrive(r)
    <3> DEFINE Elsewhere == \E state : Goto(r, state) /\ (state = Idle \/ state.pc # "reset.write")
    <3>1. ASSUME NEW u \in Users, NEW p \in Passwords, LoginFind(r, u, p)
          PROVE  Elsewhere
      BY <3>1 DEF LoginFind
    <3>2. ASSUME NEW t \in Ids, RefreshFind(r, t) \/ LogoutFind(r, t)
          PROVE  Elsewhere
      <4>1. PICK pc \in {"reuse", "expire", "rotate.issue", "logout"} :
               Goto(r, [pc |-> pc, user |-> tokens[t].owner, token |-> t])
        BY <3>2 DEF RefreshFind, LogoutFind
      <4>2. QED
        BY <4>1
    <3>3. ASSUME NEW u \in Users, LogoutAllEnter(r, u)
          PROVE  Elsewhere
      BY <3>3 DEF LogoutAllEnter
    <3> HIDE DEF Elsewhere
    <3>4. Elsewhere
      BY <2>1, <3>1, <3>2, <3>3 DEF SessionArrive
    <3>5. QED
      BY <3>4 DEF Elsewhere
  <2>2. CASE RotateRevoke(r)
    <3>1. req[r] \in RotateReq
      BY <2>2, RequestShape DEF ResetInv, Inv, RotateRevoke, At
    <3>2. [req[r] EXCEPT !.pc = "rotate.check"].pc = "rotate.check"
      BY <3>1 DEF RotateReq
    <3>3. Goto(r, [req[r] EXCEPT !.pc = "rotate.check"])
      BY <2>2 DEF RotateRevoke, Goto
    <3>4. QED
      BY <3>2, <3>3
  <2>3. CASE RotateIssue(r)
    BY <2>3 DEF RotateIssue
  <2>4. CASE RotateCheck(r)
    BY <2>4 DEF RotateCheck, Finish
  <2>5. CASE \/ LoginIssue(r) \/ ReuseRevokeAll(r) \/ ExpireRevoke(r) \/ DropRevokeAll(r)
             \/ LogoutRevoke(r) \/ LogoutAllRevoke(r) \/ ResetRevoke(r) \/ Abort(r)
    BY <2>5 DEF LoginIssue, ReuseRevokeAll, ExpireRevoke, DropRevokeAll, LogoutRevoke,
                LogoutAllRevoke, ResetRevoke, Abort, Finish
  <2>6. QED
    BY <2>1, <2>2, <2>3, <2>4, <2>5 DEF SessionStep
<1>3. PICK state : Goto(r, state) /\ (state = Idle \/ state.pc # "reset.write")
  BY <1>2
<1>4. ASSUME NEW u \in Users
      PROVE  Cardinality(Resetting(u))' <= Cardinality(Resetting(u))
  BY <1>3, ResettingMoves DEF ResetInv, Inv
<1>5. QED
  BY <1>1, <1>4, SessionsPassBy

\* Expiry of a token or a link, and the administrator.
LEMMA OthersKeep ==
    ASSUME ResetInv
    PROVE  /\ \A t \in Ids : Expire(t) /\ UNCHANGED <<linkVars, changed>> => ResetInv'
           /\ \A t \in LinkIds : LinkExpire(t) /\ UNCHANGED <<vars, changed>> => ResetInv'
           /\ \A u \in Users : SetStatus(u) => ResetInv'
           /\ UNCHANGED resetVars => ResetInv'
<1>1. ASSUME Inv', UNCHANGED <<linkVars, changed, req>>
      PROVE  ResetInv'
  <2>1. ASSUME NEW u \in Users
        PROVE  Cardinality(Resetting(u))' <= Cardinality(Resetting(u))
    <3>1. Resetting(u)' = Resetting(u)
      BY <1>1 DEF Resetting, At
    <3>2. QED
      BY <3>1, ResettingFinite
  <2>2. QED
    BY <1>1, <2>1, SessionsPassBy
<1>2. ASSUME NEW t \in Ids, Expire(t), UNCHANGED <<linkVars, changed>>
      PROVE  ResetInv'
  BY <1>1, <1>2, OtherInv DEF ResetInv, Expire
<1>3. ASSUME NEW t \in LinkIds, LinkExpire(t), UNCHANGED <<vars, changed>>
      PROVE  ResetInv'
  <2>1. LinksInv' /\ \A u \in Users : Consumed(u)' = Consumed(u)
    BY <1>3, LinkExpireKeeps DEF ResetInv
  <2>2. Inv'
    BY <1>3, InvStep DEF ResetInv
  <2>3. ResetTypeOK'
    BY <1>3, <2>1, <2>2 DEF ResetInv, Inv, ResetTypeOK, LinksInv, LinkExpire
  <2>4. ASSUME NEW u \in Users
        PROVE  Ledger(u)'
    BY <1>3, <2>1 DEF ResetInv, Ledger, JobsIn, Resetting, At, LinkExpire, vars, sessionVars
  <2>5. QED
    BY <2>1, <2>2, <2>3, <2>4 DEF ResetInv
<1>4. ASSUME NEW u \in Users, SetStatus(u)
      PROVE  ResetInv'
  <2>1. AccountTypeOK'
    BY <1>4 DEF SetStatus, UpdateStatus, SoftDelete, ResetInv, Inv, TypeOK, AccountTypeOK
  <2>2. UNCHANGED sessionVars /\ UNCHANGED <<linkVars, changed>>
    BY <1>4 DEF SetStatus
  <2>3. TableInv' /\ RowsKept
    BY <2>2, TableUnchanged DEF ResetInv, Inv, sessionVars
  <2>4. RequestsSound' /\ TypeOK' /\ AnsweredRotationSpends'
    BY <2>1, <2>2, <2>3, StaysSound
       DEF ResetInv, Inv, TypeOK, TableInv, RequestsSound, sessionVars, AnsweredRotationSpends, Live, Ids
  <2>5. QED
    BY <1>1, <2>2, <2>3, <2>4 DEF Inv, sessionVars
<1>5. ASSUME UNCHANGED resetVars
      PROVE  ResetInv'
  BY <1>1, <1>5, InvStep DEF ResetInv, resetVars, vars, sessionVars
<1>6. QED
  BY <1>2, <1>3, <1>4, <1>5

\* Every step keeps types and balance.
LEMMA ResetInvStep ==
    ASSUME ResetInv, [ResetNext]_resetVars
    PROVE  ResetInv'
<1>1. ASSUME NEW j \in Jobs, NEW u \in Users, ForgotPassword(j, u)
      PROVE  ResetInv'
  BY <1>1, LinkStepKeeps, OthersKeep DEF ForgotPassword
<1>2. ASSUME NEW j \in Jobs, LinkStep(j), UNCHANGED <<vars, changed>>
      PROVE  ResetInv'
  BY <1>2, LinkStepKeeps
<1>3. QED
  BY <1>1, <1>2, ConsumeStep, EnterStep, ChangeStep, SessionsKeep, OthersKeep DEF ResetNext

-----------------------------------------------------------------------------
(***************************************************************************)
(* The theorems.                                                           *)
(***************************************************************************)

\* The invariant holds of every reachable state, whatever the constants.
THEOREM ResetInvariant == ResetSpec => []ResetInv
<1>1. ResetInit => ResetInv
  <2> SUFFICES ASSUME ResetInit PROVE ResetInv
    OBVIOUS
  <2>1. Inv
    BY InvInit DEF ResetInit
  <2>2. LinksInv /\ \A u \in Users : Consumed(u) = {} /\ JobsIn({"reset.find"}, u) = {}
    BY LinksInitially DEF ResetInit
  <2>3. ResetTypeOK
    BY <2>1, <2>2 DEF ResetInit, LinksInit, ResetTypeOK, Inv, LinksInv
  <2>4. ASSUME NEW u \in Users
        PROVE  Ledger(u)
    <3>1. Resetting(u) = {}
      BY DEF Resetting, At, ResetInit, Init
    <3>2. changed[u] = 0
      BY DEF ResetInit
    <3>3. QED
      BY <2>2, <3>1, <3>2, FS_EmptySet DEF Ledger
  <2>5. QED
    BY <2>1, <2>2, <2>3, <2>4 DEF ResetInv
<1>2. QED
  BY <1>1, ResetInvStep, PTL DEF ResetSpec

\* Every variable keeps its type, sessions and links together.
THEOREM ResetTypeCorrect == ResetSpec => []ResetTypeOK
BY ResetInvariant, PTL DEF ResetInv

\* However resets overlap, abort and race the other requests, resetPassword
\* writes a password at most once for each link of its owner that was consumed.
THEOREM ChangesNeedOwnLinks == ResetSpec => []ChangedByOwnLinks
<1>1. ResetInv => ChangedByOwnLinks
  <2> SUFFICES ASSUME ResetInv, NEW u \in Users PROVE changed[u] <= Cardinality(Consumed(u))
    BY DEF ChangedByOwnLinks, Consumed
  <2>1. /\ Cardinality(Resetting(u)) \in Nat /\ Cardinality(JobsIn({"reset.find"}, u)) \in Nat
        /\ Cardinality(Consumed(u)) \in Nat /\ changed[u] \in Nat
    BY ResettingFinite, JobsInFinite, LinkSets, ResetShapes DEF ResetInv, LinksInv
  <2>2. QED
    BY <2>1 DEF ResetInv, Ledger
<1>2. QED
  BY <1>1, ResetInvariant, PTL

\* Where no two requests that issue or consume links overlap, a user has one
\* good link at any time, whatever dies in between.
THEOREM OneLinkWithoutOverlap ==
    ASSUME Cardinality(Jobs) = 1
    PROVE  ResetSpec => []OneUsableLink
<1>1. ResetInv => OneUsableLink
  <2> SUFFICES ASSUME ResetInv, NEW u \in Users PROVE Cardinality(UsableLinks(u)) <= 1
    BY DEF OneUsableLink
  <2>1. /\ Cardinality(UsableLinks(u)) + Cardinality(JobsIn({"create"}, u)) <= 1
        /\ Cardinality(UsableLinks(u)) \in Nat /\ Cardinality(JobsIn({"create"}, u)) \in Nat
    BY LinkSets, JobsInFinite DEF ResetInv, LinksInv
  <2>2. QED
    BY <2>1
<1>2. QED
  BY <1>1, ResetInvariant, PTL


-----------------------------------------------------------------------------
(***************************************************************************)
(* Session requests that do not overlap, beside any number of requests for *)
(* links, which may overlap and die: what SessionsProofs shows of moves of *)
(* the sessions holds of every step here.                                  *)
(***************************************************************************)

\* Every step moves the sessions, or leaves them and their users alone.
LEMMA ResetMoves ==
    ASSUME ResetInv, [ResetNext]_resetVars
    PROVE  SessionMove
<1>1. ASSUME UNCHANGED vars
      PROVE  SessionMove
  BY <1>1 DEF SessionMove, BesideSessions, vars, accountVars
<1>2. ASSUME NEW j \in Jobs, NEW r \in Requests, NEW p \in Passwords, ResetEnter(j, r, p)
      PROVE  SessionMove
  <2>1. job[j].user \in Users
    BY <1>2, ResetShapes DEF ResetInv, ResetEnter, JobAt
  <2>2. ResetFind(r, job[j].user, p) \/ UNCHANGED vars
    BY <1>2 DEF ResetEnter
  <2>3. QED
    BY <1>1, <2>1, <2>2 DEF SessionMove, Arrive
<1>3. ASSUME NEW r \in Requests, ChangePassword(r) \/ SessionArrive(r) \/ SessionStep(r) \/ Abort(r)
      PROVE  SessionMove
  BY <1>3 DEF SessionMove, ChangePassword, SessionArrive, Arrive, SessionStep, Step
<1>4. ASSUME NEW u \in Users, SetStatus(u)
      PROVE  SessionMove
  BY <1>4 DEF SetStatus, UpdateStatus, SoftDelete, SessionMove, BesideSessions
<1>5. ASSUME NEW t \in Ids, Expire(t)
      PROVE  SessionMove
  BY <1>5 DEF SessionMove
<1>6. ASSUME NEW j \in Jobs,
             \/ \E u \in Users : ForgotPassword(j, u)
             \/ \E t \in LinkIds : ResetConsume(j, t)
      PROVE  SessionMove
  BY <1>1, <1>6 DEF ForgotPassword, ResetConsume, resetVars
<1>7. QED
  BY <1>1, <1>2, <1>3, <1>4, <1>5, <1>6 DEF ResetNext, resetVars

\* Where session requests do not overlap, even if they die.
LEMMA ResetAlone == ASSUME OneRequest PROVE ResetSpec => []AloneInv
<1>1. ResetInit => AloneInv
  BY AloneInit DEF ResetInit
<1>2. ResetInv /\ AloneInv /\ [ResetNext]_resetVars => AloneInv'
  BY ResetMoves, AloneStep DEF ResetInv
<1>3. QED
  BY <1>1, <1>2, ResetInvariant, PTL DEF ResetSpec

\* Where session requests do not overlap a client is given one successor of a
\* token, even if rotations die between their statements and are tried again,
\* beside any number of requests for links and resets.
THEOREM ResetExchangedOnce == ASSUME OneRequest PROVE ResetSpec => []ExchangedOnce
<1>1. AloneInv => ExchangedOnce
  BY DEF AloneInv
<1>2. QED
  BY <1>1, ResetAlone, PTL

\* Where session requests do not overlap nothing of a session that a reset, a
\* logout-all or a detected reuse ended is alive, even if requests die.
THEOREM ResetNoSessionOutlives == ASSUME OneRequest PROVE ResetSpec => []NoSessionOutlivesRevokeAll
<1>1. AloneInv => NoSessionOutlivesRevokeAll
  BY DEF AloneInv
<1>2. QED
  BY <1>1, ResetAlone, PTL

\* However session requests and resets by link overlap and die, only a spared
\* session is alive beyond a revocation of all its user's or with another
\* password than its user has.
THEOREM ResetOnlySparedOutlive == ResetSpec => []OnlySparedSessionsOutlive
<1>1. ResetInit => SparedInv
  BY SparedInit DEF ResetInit
<1>2. ResetInv /\ SparedInv /\ [ResetNext]_resetVars => SparedInv'
  BY ResetMoves, SparedStep DEF ResetInv
<1>3. ResetInv /\ SparedInv => OnlySparedSessionsOutlive
  BY SparedShown DEF ResetInv
<1>4. QED
  BY <1>1, <1>2, <1>3, ResetInvariant, PTL DEF ResetSpec

\* Where session requests neither overlap nor die, refresh_tokens implements the
\* abstract sessions beside any number of requests for links and resets.
THEOREM ResetImplementsFamilies ==
    ASSUME OneRequest, ~MayAbort
    PROVE  ResetSpec => ImplementsSessionFamilies
<1>1. ResetInit => Families!Init
  BY FamiliesInit DEF ResetInit
<1>2. ResetInv /\ AloneInv /\ [ResetNext]_resetVars => [Families!Next]_Families!vars
  BY ResetMoves, FamiliesStep DEF ResetInv
<1>3. QED
  BY <1>1, <1>2, ResetAlone, ResetInvariant, PTL
     DEF ResetSpec, ImplementsSessionFamilies, Families!Spec

=============================================================================
