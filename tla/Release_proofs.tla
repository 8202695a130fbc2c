---------------------------- MODULE Release_proofs ----------------------------
(***************************************************************************)
(* What a registry holds, a tag's pipeline published from a commit that    *)
(* says the tag's version and that the generator leaves as it is.  The     *)
(* inductive invariant follows each publication back to such a pipeline,   *)
(* and each job that is done forward to its registry.                      *)
(***************************************************************************)
EXTENDS Release, FiniteSetTheorems, SequenceTheorems, TLAPS

\* All libraries of a commit are generated from its contract.
Whole(commit) == \A l \in Libraries : commit.clients[l] = commit.contract

\* One pipeline: it agreed on a whole commit of its version, no job ran before,
\* what a job says it published is there, and a green word that was counted is over
\* nothing else.
PipelineInv(p, published) ==
    /\ p.agreed = "success" => AllSay(p.commit, p.tag) /\ Whole(p.commit)
    /\ \A l \in Libraries :
         /\ p.jobs[l] # "waiting" => p.agreed = "success"
         /\ p.jobs[l] = "success" => published[l][p.tag] # Nothing
         /\ p.said = "green" /\ p.counted => p.jobs[l] \in {"success", "canceled"}

\* What pipeline i publishes of library l under version v.
PublishedBy(i, l, v) ==
    /\ pipelines[i].agreed = "success" /\ pipelines[i].tag = v
    /\ registry[l][v] = <<[contract |-> pipelines[i].commit.contract,
                           client |-> pipelines[i].commit.clients[l]]>>

\* Every entry of a registry has a pipeline it came from.
CameFromAPipeline ==
    \A l \in Libraries, v \in Versions :
        registry[l][v] # Nothing => \E i \in DOMAIN pipelines : PublishedBy(i, l, v)

IInv ==
    /\ TypeOK /\ ProposesWhatGenerates /\ CameFromAPipeline
    /\ \A i \in DOMAIN pipelines : PipelineInv(pipelines[i], registry)

-------------------------------------------------------------------------------
(* Commits *)

\* The generator writes every library, whichever place it has in the order.
LEMMA EveryLibraryIsEmitted == \A l \in Libraries : \E i \in 1 .. Len(Emitted) : Emitted[i] = l
  BY ReleaseAssumption DEF Libraries, Range

\* generate.ts changes the clients of a commit, and no more; it may be stopped.
LEMMA RegeneratedIsACommit ==
    ASSUME NEW commit \in Commits, NEW n
    PROVE  /\ Regenerated(commit, n) \in Commits
           /\ Regenerated(commit, n).contract = commit.contract
           /\ Regenerated(commit, n).carries = commit.carries
           /\ \A l \in Libraries :
                Regenerated(commit, n).clients[l] = IF \E i \in 1 .. n : Emitted[i] = l
                                                      THEN commit.contract ELSE commit.clients[l]
<1> DEFINE files == [l \in Libraries |-> IF \E i \in 1 .. n : Emitted[i] = l
                                           THEN commit.contract ELSE commit.clients[l]]
<1>1. Regenerated(commit, n) = [commit EXCEPT !.clients = files]
  BY DEF Regenerated
<1>2. files \in [Libraries -> Contracts \cup {Byhand}]
  BY DEF Commits
<1> HIDE DEF files
<1>3. [commit EXCEPT !.clients = files] \in Commits /\ [commit EXCEPT !.clients = files].clients = files
  BY <1>2 DEF Commits
<1>4. QED
  BY <1>1, <1>3 DEF files, Commits

\* When it ran to its end every library is of the contract, and where nothing
\* moves every library was.
LEMMA GeneratedToTheEnd ==
    ASSUME NEW commit \in Commits
    PROVE  Whole(Regenerated(commit, Len(Emitted))) /\ (NothingMoves(commit) => Whole(commit))
<1>1. Whole(Regenerated(commit, Len(Emitted)))
  BY RegeneratedIsACommit, EveryLibraryIsEmitted DEF Whole
<1>2. QED
  BY <1>1 DEF NothingMoves

\* A commit with one of its parts replaced is a commit.
LEMMA CommitsBuilt ==
    ASSUME NEW commit \in Commits
    PROVE  /\ \A n \in Contracts : [commit EXCEPT !.contract = n] \in Commits
           /\ \A f \in [Libraries -> Contracts \cup {Byhand}] : [commit EXCEPT !.clients = f] \in Commits
           /\ \A f \in [Libraries -> Versions \cup {Unread}] : [commit EXCEPT !.says = f] \in Commits
           /\ \A f \in [Libraries -> Addresses] : [commit EXCEPT !.carries = f] \in Commits
  BY DEF Commits

-------------------------------------------------------------------------------
(* Steps that leave the pipelines and the registries alone *)

\* What the invariant says of them stays.
LEMMA NothingPublished ==
    ASSUME IInv, UNCHANGED <<pipelines, registry>>
    PROVE  /\ CameFromAPipeline'
           /\ \A i \in DOMAIN pipelines' : PipelineInv(pipelines'[i], registry')
  BY DEF IInv, CameFromAPipeline, PublishedBy

\* A commit to main, whatever it holds.
LEMMA CommitKeeps ==
    ASSUME IInv, NEW commit \in Commits, Commit(commit)
    PROVE  IInv'
<1>1. TypeOK'
  <2>1. edits' \in 0 .. MaxEdits
    BY ReleaseAssumption DEF IInv, TypeOK, Commit
  <2>2. QED
    BY <2>1 DEF IInv, TypeOK, Commit
<1>2. ProposesWhatGenerates'
  BY DEF IInv, ProposesWhatGenerates, Commit
<1>3. UNCHANGED <<pipelines, registry>>
  BY DEF Commit
<1>4. QED
  BY <1>1, <1>2, <1>3, NothingPublished DEF IInv

\* The people's commits are such.
LEMMA PeopleKeep ==
    ASSUME IInv,
           \/ \E n \in 1 .. Len(Emitted) : Generate(n)
           \/ TakeContract
           \/ \E l \in Libraries : EditByHand(l)
           \/ \E missed \in {{}} \cup {{l} : l \in Libraries} :
                Readdress(missed) \/ \E v \in Versions : Bump(v, missed)
    PROVE  IInv'
<1>1. main \in Commits /\ server.contract \in Contracts /\ server.token \in Addresses
  BY DEF IInv, TypeOK
<1>2. ASSUME NEW n \in 1 .. Len(Emitted), Generate(n) PROVE IInv'
  BY <1>1, <1>2, CommitKeeps, RegeneratedIsACommit DEF Generate
<1>3. ASSUME TakeContract PROVE IInv'
  BY <1>1, <1>3, CommitKeeps, CommitsBuilt DEF TakeContract
<1>4. ASSUME NEW l \in Libraries, EditByHand(l) PROVE IInv'
  <2>1. [main.clients EXCEPT ![l] = Byhand] \in [Libraries -> Contracts \cup {Byhand}]
    BY <1>1 DEF Commits
  <2>2. [main EXCEPT !.clients[l] = Byhand] \in Commits
    BY <1>1, <2>1, CommitsBuilt
  <2>3. QED
    BY <1>4, <2>2, CommitKeeps DEF EditByHand
<1>5. ASSUME NEW missed \in {{}} \cup {{l} : l \in Libraries}, Readdress(missed) PROVE IInv'
  <2>1. [l \in Libraries |-> IF l \in missed THEN main.carries[l] ELSE server.token]
          \in [Libraries -> Addresses]
    BY <1>1 DEF Commits
  <2>2. [main EXCEPT !.carries = [l \in Libraries |-> IF l \in missed THEN @[l] ELSE server.token]] \in Commits
    BY <1>1, <2>1, CommitsBuilt
  <2>3. QED
    BY <1>5, <2>2, CommitKeeps DEF Readdress
<1>6. ASSUME NEW missed \in {{}} \cup {{l} : l \in Libraries}, NEW v \in Versions, Bump(v, missed)
      PROVE  IInv'
  <2>1. PICK kept \in {main.says[l] : l \in missed} \cup {Unread} :
          Commit([main EXCEPT !.says = [l \in Libraries |-> IF l \in missed THEN kept ELSE v]])
    BY <1>6 DEF Bump
  <2>2. kept \in Versions \cup {Unread}
    BY <1>1 DEF Commits
  <2>3. [l \in Libraries |-> IF l \in missed THEN kept ELSE v] \in [Libraries -> Versions \cup {Unread}]
    BY <2>2
  <2>4. [main EXCEPT !.says = [l \in Libraries |-> IF l \in missed THEN kept ELSE v]] \in Commits
    BY <1>1, <2>3, CommitsBuilt
  <2>5. QED
    BY <2>1, <2>4, CommitKeeps
<1>7. QED
  BY <1>2, <1>3, <1>4, <1>5, <1>6

\* A new contract of the server.
LEMMA ServerMovesKeeps ==
    ASSUME IInv, ServerMoves
    PROVE  IInv'
<1>1. TypeOK'
  BY ReleaseAssumption DEF IInv, TypeOK, ServerMoves, Contracts
<1>2. ProposesWhatGenerates'
  BY DEF IInv, ProposesWhatGenerates, ServerMoves
<1>3. UNCHANGED <<pipelines, registry>>
  BY DEF ServerMoves
<1>4. QED
  BY <1>1, <1>2, <1>3, NothingPublished DEF IInv

\* contract-refresh: what it pushes was generated to its end, from a main whose
\* libraries carried the address that the server gave.
LEMMA RefreshKeeps ==
    ASSUME IInv, NEW long \in BOOLEAN, Refresh(long)
    PROVE  IInv'
<1> DEFINE asking  == [main EXCEPT !.contract = server.contract]
           fetched == Regenerated(asking, Len(Emitted))
           pushed  == [commit |-> fetched, from |-> main, asked |-> server.token]
<1>1. main \in Commits /\ server.contract \in Contracts /\ server.token \in Addresses
  BY DEF IInv, TypeOK
<1>2. asking \in Commits /\ asking.carries = main.carries
  BY <1>1, CommitsBuilt DEF Commits
<1>3. /\ fetched \in Commits /\ fetched.carries = main.carries
      /\ Whole(fetched)
  BY <1>2, RegeneratedIsACommit, GeneratedToTheEnd
<1>4. /\ EndpointsAgree(main) /\ proposal' = <<pushed>>
      /\ UNCHANGED <<server, main, edits, pipelines, reruns, registry>>
  BY DEF Refresh, Pushed
<1> HIDE DEF fetched, asking
<1>5. proposal' \in Seq(Proposals) /\ Len(proposal') = 1 /\ proposal'[1] = pushed
  BY <1>1, <1>3, <1>4 DEF Proposals
<1>6. TypeOK'
  BY <1>4, <1>5 DEF IInv, TypeOK
<1>7. ProposesWhatGenerates'
  BY <1>3, <1>4, <1>5 DEF ProposesWhatGenerates, Whole, EndpointsAgree
<1>8. QED
  BY <1>4, <1>6, <1>7, NothingPublished DEF IInv

\* The merge request: main takes the contract and the files, and keeps the rest.
LEMMA MergeKeeps ==
    ASSUME IInv, Merge
    PROVE  IInv'
<1>1. proposal[1] \in Proposals /\ main \in Commits
  BY DEF IInv, TypeOK, Merge, Nothing
<1>2. proposal[1].commit.contract \in Contracts
      /\ proposal[1].commit.clients \in [Libraries -> Contracts \cup {Byhand}]
  BY <1>1 DEF Proposals, Commits
<1>3. main' \in Commits
  BY <1>1, <1>2 DEF Merge, Commits
<1>4. TypeOK'
  <2>1. proposal' \in Seq(Proposals) /\ Len(proposal') <= 1
    BY DEF Merge, Nothing
  <2>2. QED
    BY <1>3, <2>1 DEF IInv, TypeOK, Merge
<1>5. ProposesWhatGenerates'
  BY DEF Merge, ProposesWhatGenerates
<1>6. UNCHANGED <<pipelines, registry>>
  BY DEF Merge
<1>7. QED
  BY <1>4, <1>5, <1>6, NothingPublished DEF IInv

-------------------------------------------------------------------------------
(* The pipelines *)

\* A pipeline is of its kind.
LEMMA PipelineFields ==
    ASSUME IInv, NEW i \in DOMAIN pipelines
    PROVE  /\ pipelines[i] \in Pipelines
           /\ pipelines[i].tag \in Versions /\ pipelines[i].commit \in Commits
           /\ pipelines[i].jobs \in [Libraries -> Ended \cup {"waiting"}]
           /\ PipelineInv(pipelines[i], registry)
<1>1. pipelines[i] \in Pipelines
  BY ElementOfSeq, LenProperties DEF IInv, TypeOK
<1>2. QED
  BY <1>1 DEF IInv, Pipelines

\* A tag is cut: one pipeline more, which has done nothing yet.
LEMMA TagKeeps ==
    ASSUME IInv, NEW version \in Versions, Tag(version)
    PROVE  IInv'
<1> DEFINE new == [tag |-> version, commit |-> main, agreed |-> "waiting", said |-> "waiting", counted |-> FALSE,
                   jobs |-> [l \in Libraries |-> "waiting"]]
<1>1. new \in Pipelines
  BY DEF IInv, TypeOK, Pipelines
<1>2. /\ Len(pipelines) < MaxPipelines /\ pipelines' = Append(pipelines, new)
      /\ UNCHANGED <<server, main, edits, proposal, reruns, registry>>
  BY DEF Tag, TagsLeft
<1>3. pipelines \in Seq(Pipelines) /\ Len(pipelines) \in Nat /\ DOMAIN pipelines = 1 .. Len(pipelines)
  BY LenProperties DEF IInv, TypeOK
<1>4. PipelineInv(new, registry)
  BY DEF PipelineInv
<1> HIDE DEF new
<1>5. /\ pipelines' \in Seq(Pipelines) /\ Len(pipelines') = Len(pipelines) + 1
      /\ \A i \in 1 .. Len(pipelines) : pipelines'[i] = pipelines[i]
      /\ pipelines'[Len(pipelines) + 1] = new
  BY <1>1, <1>2, <1>3, AppendProperties
<1>6. DOMAIN pipelines' = 1 .. Len(pipelines) + 1
  BY <1>5, LenProperties
<1>7. TypeOK'
  BY <1>2, <1>3, <1>5, ReleaseAssumption DEF IInv, TypeOK
<1>8. ProposesWhatGenerates'
  BY <1>2 DEF IInv, ProposesWhatGenerates
<1>9. CameFromAPipeline'
  <2> SUFFICES ASSUME NEW l \in Libraries, NEW v \in Versions, registry[l][v] # Nothing
               PROVE  \E i \in DOMAIN pipelines' : PublishedBy(i, l, v)'
    BY <1>2 DEF CameFromAPipeline
  <2>1. PICK i \in DOMAIN pipelines : PublishedBy(i, l, v)
    BY DEF IInv, CameFromAPipeline
  <2>2. pipelines'[i] = pipelines[i] /\ i \in DOMAIN pipelines'
    BY <1>3, <1>5, <1>6
  <2>3. PublishedBy(i, l, v)'
    BY <1>2, <2>1, <2>2 DEF PublishedBy
  <2>4. QED
    BY <2>2, <2>3
<1>10. \A i \in DOMAIN pipelines' : PipelineInv(pipelines'[i], registry')
  BY <1>2, <1>3, <1>4, <1>5, <1>6 DEF IInv
<1>11. QED
  BY <1>7, <1>8, <1>9, <1>10 DEF IInv

\* Pipeline i goes on with what it stands on, and the registries keep what they
\* have: what is new in one was published by it.
LEMMA PipelineKeeps ==
    ASSUME IInv, NEW i \in DOMAIN pipelines, NEW p \in Pipelines,
           pipelines' = [pipelines EXCEPT ![i] = p],
           p.tag = pipelines[i].tag, p.commit = pipelines[i].commit,
           pipelines[i].agreed = "success" => p.agreed = "success",
           PipelineInv(p, registry'),
           reruns' \in 0 .. MaxReruns,
           registry' \in [Libraries -> [Versions -> Seq(Artefacts)]],
           \A l \in Libraries, v \in Versions :
              \/ registry'[l][v] = registry[l][v]
              \/ /\ registry[l][v] = Nothing /\ PublishedBy(i, l, v)'
                 /\ Len(registry'[l][v]) = 1,
           UNCHANGED <<server, main, edits, proposal>>
    PROVE  IInv'
<1>1. pipelines \in Seq(Pipelines) /\ DOMAIN pipelines = 1 .. Len(pipelines)
  BY LenProperties DEF IInv, TypeOK
<1>2. /\ pipelines' \in Seq(Pipelines) /\ Len(pipelines') = Len(pipelines)
      /\ DOMAIN pipelines' = DOMAIN pipelines
      /\ pipelines'[i] = p
      /\ \A j \in DOMAIN pipelines : j # i => pipelines'[j] = pipelines[j]
  BY <1>1, ExceptSeq
<1>3. TypeOK'
  <2>1. ASSUME NEW l \in Libraries, NEW v \in Versions PROVE Len(registry'[l][v]) <= 1
    <3>1. CASE registry'[l][v] = registry[l][v]
      BY <3>1 DEF IInv, TypeOK
    <3>2. CASE Len(registry'[l][v]) = 1
      BY <3>2
    <3>3. QED
      BY <3>1, <3>2
  <2>2. QED
    BY <1>2, <2>1 DEF IInv, TypeOK
<1>4. ProposesWhatGenerates'
  BY DEF IInv, ProposesWhatGenerates
<1>5. CameFromAPipeline'
  <2> SUFFICES ASSUME NEW l \in Libraries, NEW v \in Versions, registry'[l][v] # Nothing
               PROVE  \E j \in DOMAIN pipelines' : PublishedBy(j, l, v)'
    BY DEF CameFromAPipeline
  <2>1. CASE registry'[l][v] = registry[l][v]
    <3>1. PICK j \in DOMAIN pipelines : PublishedBy(j, l, v)
      BY <2>1 DEF IInv, CameFromAPipeline
    <3>2. PublishedBy(j, l, v)'
      BY <1>2, <2>1, <3>1 DEF PublishedBy
    <3>3. QED
      BY <1>2, <3>2
  <2>2. CASE registry'[l][v] # registry[l][v]
    BY <1>2, <2>2
  <2>3. QED
    BY <2>1, <2>2
<1>6. ASSUME NEW j \in DOMAIN pipelines' PROVE PipelineInv(pipelines'[j], registry')
  <2>1. CASE j = i
    BY <1>2, <2>1
  <2>2. CASE j # i
    <3>1. pipelines'[j] = pipelines[j] /\ PipelineInv(pipelines[j], registry)
      BY <1>2, <2>2 DEF IInv
    <3>2. pipelines[j].tag \in Versions
      BY <1>2, PipelineFields
    <3>3. \A l \in Libraries :
            registry[l][pipelines[j].tag] # Nothing => registry'[l][pipelines[j].tag] # Nothing
      BY <3>2
    <3>4. QED
      BY <3>1, <3>3 DEF PipelineInv
  <2>3. QED
    BY <2>1, <2>2
<1>7. QED
  BY <1>3, <1>4, <1>5, <1>6 DEF IInv

\* The same where nothing is published.
LEMMA QuietPipelineKeeps ==
    ASSUME IInv, NEW i \in DOMAIN pipelines, NEW p \in Pipelines,
           pipelines' = [pipelines EXCEPT ![i] = p],
           p.tag = pipelines[i].tag, p.commit = pipelines[i].commit,
           pipelines[i].agreed = "success" => p.agreed = "success",
           PipelineInv(p, registry),
           reruns' \in 0 .. MaxReruns,
           UNCHANGED <<server, main, edits, proposal, registry>>
    PROVE  IInv'
<1>1. registry' \in [Libraries -> [Versions -> Seq(Artefacts)]]
  BY DEF IInv, TypeOK
<1>2. PipelineInv(p, registry')
  BY DEF PipelineInv
<1>3. \A l \in Libraries, v \in Versions : registry'[l][v] = registry[l][v]
  OBVIOUS
<1>4. QED
  BY <1>1, <1>2, <1>3, PipelineKeeps

\* `agreed`: the versions are equal and nothing moves, or it failed.
LEMMA AgreeKeeps ==
    ASSUME IInv, NEW i \in DOMAIN pipelines, Agree(i)
    PROVE  IInv'
<1>1. PICK how \in {"success", "failed"} :
        /\ how = "success" => AllSay(pipelines[i].commit, pipelines[i].tag) /\ NothingMoves(pipelines[i].commit)
        /\ pipelines' = [pipelines EXCEPT ![i].agreed = how]
  BY DEF Agree
<1> DEFINE p == [pipelines[i] EXCEPT !.agreed = how]
<1>2. /\ p \in Pipelines /\ p.tag = pipelines[i].tag /\ p.commit = pipelines[i].commit
      /\ p.jobs = pipelines[i].jobs /\ p.agreed = how
      /\ p.said = pipelines[i].said /\ p.counted = pipelines[i].counted
  BY PipelineFields DEF Pipelines
<1>3. pipelines' = [pipelines EXCEPT ![i] = p]
  BY <1>1
<1> HIDE DEF p
<1>4. pipelines[i].agreed = "waiting"
  BY DEF Agree
<1>5. PipelineInv(p, registry)
  BY <1>1, <1>2, <1>4, PipelineFields, GeneratedToTheEnd DEF PipelineInv
<1>6. reruns' \in 0 .. MaxReruns /\ UNCHANGED <<server, main, edits, proposal, registry>>
  BY DEF Agree, IInv, TypeOK
<1>7. QED
  BY <1>2, <1>3, <1>4, <1>5, <1>6, QuietPipelineKeeps

\* `said`: red, green over a count of none, or green without a count.
LEMMA SayKeeps ==
    ASSUME IInv, NEW i \in DOMAIN pipelines, Say(i)
    PROVE  IInv'
<1>1. Settled(pipelines[i])
  BY DEF Say
<1>2. PICK word \in {"green", "red"}, counted \in BOOLEAN :
        Says(i, word, counted) /\ (word = "green" /\ counted => ~Fell(pipelines[i]))
  BY DEF Say
<1> DEFINE p == [[pipelines[i] EXCEPT !.said = word] EXCEPT !.counted = counted]
<1>3. /\ p \in Pipelines /\ p.tag = pipelines[i].tag /\ p.commit = pipelines[i].commit
      /\ p.jobs = pipelines[i].jobs /\ p.agreed = pipelines[i].agreed
      /\ p.said = word /\ p.counted = counted
  BY PipelineFields DEF Pipelines
<1>4. /\ pipelines' = [pipelines EXCEPT ![i] = p]
      /\ UNCHANGED <<server, main, edits, proposal, reruns, registry>>
  BY <1>2 DEF Says
<1> HIDE DEF p
<1>5. PipelineInv(p, registry)
  <2>1. ASSUME p.said = "green", p.counted, NEW l \in Libraries
        PROVE  p.jobs[l] \in {"success", "canceled"}
    BY <1>1, <1>2, <1>3, <2>1 DEF Ended, Settled, Fell
  <2>2. QED
    BY <1>3, <2>1, PipelineFields DEF PipelineInv
<1>6. reruns' \in 0 .. MaxReruns
  BY <1>4 DEF IInv, TypeOK
<1>7. QED
  BY <1>3, <1>4, <1>5, <1>6, QuietPipelineKeeps

\* Run again: the jobs that failed wait, and so does the word.
LEMMA RerunKeeps ==
    ASSUME IInv, NEW i \in DOMAIN pipelines, Rerun(i)
    PROVE  IInv'
<1> DEFINE jobs == [l \in Libraries |-> IF pipelines[i].jobs[l] = "failed" THEN "waiting"
                                          ELSE pipelines[i].jobs[l]]
           p    == [[[pipelines[i] EXCEPT !.jobs = jobs] EXCEPT !.said = "waiting"] EXCEPT !.counted = FALSE]
<1>1. /\ pipelines[i].agreed = "success" /\ reruns < MaxReruns /\ reruns' = reruns + 1
      /\ UNCHANGED <<server, main, edits, proposal, registry>>
  BY DEF Rerun
<1>2. pipelines' = [pipelines EXCEPT ![i] = p]
  BY DEF Rerun
<1>3. jobs \in [Libraries -> Ended \cup {"waiting"}]
  BY PipelineFields
<1>4. \A l \in Libraries : jobs[l] \in {"waiting", pipelines[i].jobs[l]}
  OBVIOUS
<1> HIDE DEF jobs
<1>5. /\ p \in Pipelines /\ p.tag = pipelines[i].tag /\ p.commit = pipelines[i].commit
      /\ p.agreed = pipelines[i].agreed /\ p.jobs = jobs /\ p.said = "waiting"
  BY <1>3, PipelineFields DEF Pipelines
<1> HIDE DEF p
<1>6. PipelineInv(p, registry)
  BY <1>1, <1>4, <1>5, PipelineFields DEF PipelineInv
<1>7. reruns' \in 0 .. MaxReruns
  BY <1>1, ReleaseAssumption DEF IInv, TypeOK
<1>8. QED
  BY <1>1, <1>2, <1>5, <1>6, <1>7, QuietPipelineKeeps

\* A job that runs, of a pipeline that agreed, ends.
LEMMA JobFields ==
    ASSUME IInv, NEW i \in DOMAIN pipelines, NEW l \in Libraries, Runs(i, l),
           NEW how \in Ended, Ends(i, l, how), NEW published,
           how = "success" => published[l][pipelines[i].tag] # Nothing,
           \A k \in Libraries :
              registry[k][pipelines[i].tag] # Nothing => published[k][pipelines[i].tag] # Nothing
    PROVE  \E p \in Pipelines :
             /\ pipelines' = [pipelines EXCEPT ![i] = p]
             /\ p.tag = pipelines[i].tag /\ p.commit = pipelines[i].commit
             /\ p.agreed = "success" /\ PipelineInv(p, published)
<1> DEFINE jobs == [pipelines[i].jobs EXCEPT ![l] = how]
           p    == [pipelines[i] EXCEPT !.jobs = jobs]
<1>1. /\ jobs \in [Libraries -> Ended \cup {"waiting"}] /\ jobs[l] = how
      /\ \A k \in Libraries : k # l => jobs[k] = pipelines[i].jobs[k]
  BY PipelineFields
<1>2. pipelines' = [pipelines EXCEPT ![i] = p]
  BY DEF Ends
<1> HIDE DEF jobs
<1>3. /\ p \in Pipelines /\ p.tag = pipelines[i].tag /\ p.commit = pipelines[i].commit
      /\ p.jobs = jobs /\ p.said = pipelines[i].said /\ p.counted = pipelines[i].counted
      /\ p.agreed = "success"
  BY <1>1, PipelineFields DEF Pipelines, Runs
<1> HIDE DEF p
<1>4. ~(pipelines[i].said = "green" /\ pipelines[i].counted) /\ pipelines[i].agreed = "success"
  BY PipelineFields DEF PipelineInv, Runs
<1>5. PipelineInv(p, published)
  BY <1>1, <1>3, <1>4, PipelineFields DEF PipelineInv
<1>6. QED
  BY <1>2, <1>3, <1>5

\* An upload that the registry takes, whether or not its answer comes back.
LEMMA PublishKeeps ==
    ASSUME IInv, NEW i \in DOMAIN pipelines, NEW l \in Libraries, Publish(i, l)
    PROVE  IInv'
<1>0. PICK v \in Versions : v = pipelines[i].tag
  BY PipelineFields
<1> DEFINE commit == pipelines[i].commit
           new    == <<[contract |-> commit.contract, client |-> commit.clients[l]]>>
<1>1. pipelines[i].agreed = "success" /\ Runs(i, l) /\ commit.says[l] = v
  BY <1>0, PipelineFields DEF Publish, Runs, PipelineInv, AllSay
<1>2. /\ registry[l][v] = Nothing /\ registry' = [registry EXCEPT ![l][v] = new]
      /\ UNCHANGED <<server, main, edits, proposal, reruns>>
  BY <1>1 DEF Publish
<1>3. registry \in [Libraries -> [Versions -> Seq(Artefacts)]]
  BY DEF IInv, TypeOK
<1>4. [contract |-> commit.contract, client |-> commit.clients[l]] \in Artefacts
  BY PipelineFields DEF Commits, Artefacts
<1>5. new \in Seq(Artefacts) /\ Len(new) = 1 /\ new # Nothing
  BY <1>4 DEF Nothing
<1>6. PICK how \in {"success", "failed"} : Ends(i, l, how)
  BY DEF Publish
<1>7. /\ registry' \in [Libraries -> [Versions -> Seq(Artefacts)]]
      /\ registry'[l][v] = new
      /\ \A k \in Libraries, w \in Versions : k # l \/ w # v => registry'[k][w] = registry[k][w]
  <2> HIDE DEF new
  <2>1. QED
    BY <1>1, <1>2, <1>3, <1>5
<1>8. /\ registry'[l][pipelines[i].tag] # Nothing
      /\ \A k \in Libraries :
           registry[k][pipelines[i].tag] # Nothing => registry'[k][pipelines[i].tag] # Nothing
  BY <1>0, <1>2, <1>5, <1>7
<1>9. how \in Ended
  BY DEF Ended
<1>10. PICK p \in Pipelines :
         /\ pipelines' = [pipelines EXCEPT ![i] = p]
         /\ p.tag = v /\ p.commit = commit
         /\ p.agreed = "success" /\ PipelineInv(p, registry')
  BY <1>0, <1>1, <1>6, <1>8, <1>9, JobFields
<1>11. pipelines'[i] = p
  BY <1>10, PipelineFields DEF IInv, TypeOK
<1>12. PublishedBy(i, l, v)'
  BY <1>7, <1>10, <1>11 DEF PublishedBy
<1>13. ASSUME NEW k \in Libraries, NEW w \in Versions
       PROVE  \/ registry'[k][w] = registry[k][w]
              \/ /\ registry[k][w] = Nothing /\ PublishedBy(i, k, w)'
                 /\ Len(registry'[k][w]) = 1
  <2> HIDE DEF new
  <2>1. CASE k = l /\ w = v
    BY <1>2, <1>5, <1>7, <1>12, <2>1
  <2>2. CASE k # l \/ w # v
    BY <1>7, <2>2
  <2>3. QED
    BY <2>1, <2>2
<1>14. reruns' \in 0 .. MaxReruns
  BY <1>2 DEF IInv, TypeOK
<1>15. QED
  <2> HIDE DEF commit, new
  <2>1. p.tag = pipelines[i].tag /\ p.commit = pipelines[i].commit
    BY <1>0, <1>10 DEF commit
  <2>2. QED
    BY <1>2, <1>7, <1>10, <1>13, <1>14, <2>1, PipelineKeeps

\* An upload that is refused, or a job that fails or is stopped.
LEMMA RefuseOrFailKeeps ==
    ASSUME IInv, NEW i \in DOMAIN pipelines, NEW l \in Libraries, Refuse(i, l) \/ Fail(i, l)
    PROVE  IInv'
<1>1. Runs(i, l) /\ UNCHANGED <<server, main, edits, proposal, reruns, registry>>
  BY DEF Refuse, Fail
<1>2. pipelines[i].commit.says[l] = pipelines[i].tag
  BY <1>1, PipelineFields DEF Runs, PipelineInv, AllSay
<1>3. PICK how \in Ended :
        Ends(i, l, how) /\ (how = "success" => registry[l][pipelines[i].tag] # Nothing)
  BY <1>2 DEF Refuse, Fail, Ended
<1>4. PICK p \in Pipelines :
        /\ pipelines' = [pipelines EXCEPT ![i] = p]
        /\ p.tag = pipelines[i].tag /\ p.commit = pipelines[i].commit
        /\ p.agreed = "success" /\ PipelineInv(p, registry)
  BY <1>1, <1>3, JobFields
<1>5. reruns' \in 0 .. MaxReruns
  BY <1>1 DEF IInv, TypeOK
<1>6. QED
  BY <1>1, <1>4, <1>5, QuietPipelineKeeps

-------------------------------------------------------------------------------
\* The repository as it stands satisfies the invariant.
LEMMA InitIInv == Init => IInv
<1> SUFFICES ASSUME Init PROVE IInv
  OBVIOUS
<1>1. 1 \in Contracts /\ 1 \in Versions /\ "token endpoint" \in Addresses
  BY ReleaseAssumption DEF Contracts, Addresses
<1>2. server \in [contract : Contracts, token : Addresses] /\ main \in Commits
  BY <1>1 DEF Init, Commits
<1>3. /\ proposal \in Seq(Proposals) /\ Len(proposal) <= 1
      /\ pipelines \in Seq(Pipelines) /\ Len(pipelines) = 0 /\ DOMAIN pipelines = {}
  <2>1. proposal = <<>> /\ pipelines = <<>>
    BY DEF Init, Nothing
  <2>2. proposal \in Seq(Proposals) /\ pipelines \in Seq(Pipelines)
    BY <2>1, EmptySeq
  <2>3. Len(proposal) = 0 /\ Len(pipelines) = 0
    BY <2>1, EmptySeq
  <2>4. QED
    BY <2>2, <2>3, LenProperties
<1>4. /\ registry \in [Libraries -> [Versions -> Seq(Artefacts)]]
      /\ \A l \in Libraries, v \in Versions : registry[l][v] = Nothing /\ Len(registry[l][v]) <= 1
  <2>1. Nothing \in Seq(Artefacts) /\ Len(Nothing) <= 1
    BY DEF Nothing
  <2>2. registry = [l \in Libraries |-> [v \in Versions |-> Nothing]]
    BY DEF Init
  <2> HIDE DEF Nothing
  <2>3. QED
    BY <2>1, <2>2
<1>5. edits \in 0 .. MaxEdits /\ reruns \in 0 .. MaxReruns /\ Len(pipelines) <= MaxPipelines
  <2>1. edits = 0 /\ reruns = 0
    BY DEF Init
  <2>2. QED
    BY <1>3, <2>1, ReleaseAssumption
<1>6. TypeOK
  BY <1>2, <1>3, <1>4, <1>5 DEF TypeOK
<1>7. ProposesWhatGenerates
  BY DEF Init, ProposesWhatGenerates
<1>8. CameFromAPipeline
  BY <1>4 DEF CameFromAPipeline
<1>9. QED
  BY <1>3, <1>6, <1>7, <1>8 DEF IInv

\* No step of people, the schedule or a pipeline leaves it.
LEMMA NextIInv == IInv /\ [Next]_vars => IInv'
<1> SUFFICES ASSUME IInv, [Next]_vars PROVE IInv'
  OBVIOUS
<1>1. CASE UNCHANGED vars
  <2>1. TypeOK' /\ ProposesWhatGenerates'
    BY <1>1 DEF vars, IInv, TypeOK, ProposesWhatGenerates
  <2>2. QED
    BY <1>1, <2>1, NothingPublished DEF vars, IInv
<1>2. ASSUME NEW i \in DOMAIN pipelines,
             \/ Agree(i) \/ Say(i) \/ Rerun(i)
             \/ \E l \in Libraries : Publish(i, l) \/ Refuse(i, l) \/ Fail(i, l)
      PROVE  IInv'
  BY <1>2, AgreeKeeps, SayKeeps, RerunKeeps, PublishKeeps, RefuseOrFailKeeps
<1>3. QED
  BY <1>1, <1>2, ServerMovesKeeps, PeopleKeep, TagKeeps, RefreshKeeps, MergeKeeps DEF Next

\* The inductive invariant of the releases.
THEOREM ReleasedThroughPipelines == Spec => []IInv
  BY InitIInv, NextIInv, PTL DEF Spec

\* Every state of the branches, the pipelines and the registries is of its type.
THEOREM TypeCorrect == Spec => []TypeOK
<1>1. IInv => TypeOK
  BY DEF IInv
<1>2. QED
  BY <1>1, ReleasedThroughPipelines, PTL

\* Whatever is edited, refreshed, stopped half way and tagged, nothing is in a
\* registry that the generator would not write from the contract at its tag.
THEOREM WhatIsPublishedIsGenerated == Spec => []PublishedAsGenerated
<1>1. ASSUME IInv PROVE PublishedAsGenerated
  <2> SUFFICES ASSUME NEW l \in Libraries, NEW v \in Versions, registry[l][v] # Nothing
               PROVE  registry[l][v][1].client = registry[l][v][1].contract
    BY DEF PublishedAsGenerated
  <2>1. PICK i \in DOMAIN pipelines : PublishedBy(i, l, v)
    BY <1>1 DEF IInv, CameFromAPipeline
  <2>2. Whole(pipelines[i].commit)
    BY <1>1, <2>1, PipelineFields DEF PublishedBy, PipelineInv
  <2>3. QED
    BY <2>1, <2>2 DEF PublishedBy, Whole
<1>2. QED
  BY <1>1, ReleasedThroughPipelines, PTL

\* All that is published under one version is of one contract, unless its tag was
\* deleted and cut again.
THEOREM VersionsMatch == Spec => []MatchingVersions
<1>1. ASSUME IInv PROVE MatchingVersions
  <2> SUFFICES ASSUME NEW l \in Libraries, NEW k \in Libraries, NEW v \in Versions,
                      registry[l][v] # Nothing, registry[k][v] # Nothing, Cardinality(Cuts(v)) = 1
               PROVE  registry[l][v][1].client = registry[k][v][1].client
    BY DEF MatchingVersions
  <2>1. PICK i \in DOMAIN pipelines : PublishedBy(i, l, v)
    BY <1>1 DEF IInv, CameFromAPipeline
  <2>2. PICK j \in DOMAIN pipelines : PublishedBy(j, k, v)
    BY <1>1 DEF IInv, CameFromAPipeline
  <2>3. i = j
    <3>1. DOMAIN pipelines = 1 .. Len(pipelines) /\ Len(pipelines) \in Nat
      BY <1>1, LenProperties DEF IInv, TypeOK
    <3>2. IsFiniteSet(DOMAIN pipelines)
      BY <3>1, FS_Interval
    <3>3. IsFiniteSet(Cuts(v))
      BY <3>2, FS_Subset DEF Cuts
    <3>4. PICK only : Cuts(v) = {only}
      BY <3>3, FS_Singleton
    <3>5. QED
      BY <2>1, <2>2, <3>4 DEF Cuts, PublishedBy
  <2>4. Whole(pipelines[i].commit)
    BY <1>1, <2>1, PipelineFields DEF PublishedBy, PipelineInv
  <2>5. QED
    BY <2>1, <2>2, <2>3, <2>4 DEF PublishedBy, Whole
<1>2. QED
  BY <1>1, ReleasedThroughPipelines, PTL

\* "All six went out" over a count of the jobs is said only when they did, however
\* many libraries there are and however often jobs fail, lose their answers and
\* are run again.
THEOREM GreenIsTrue == Spec => []GreenMeansSix
<1>1. ASSUME IInv PROVE GreenMeansSix
  <2> SUFFICES ASSUME NEW i \in DOMAIN pipelines, pipelines[i].said = "green", pipelines[i].counted,
                      \A l \in Libraries : pipelines[i].jobs[l] # "canceled",
                      NEW l \in Libraries
               PROVE  registry[l][pipelines[i].tag] # Nothing
    BY DEF GreenMeansSix, Range
  <2>1. QED
    BY <1>1, PipelineFields DEF PipelineInv
<1>2. QED
  BY <1>1, ReleasedThroughPipelines, PTL

\* contract/refresh holds six libraries of one contract, with the address that
\* the server gave, through any edits and merges beside it.
THEOREM ProposalsAreWhole == Spec => []ProposesWhatGenerates
<1>1. IInv => ProposesWhatGenerates
  BY DEF IInv
<1>2. QED
  BY <1>1, ReleasedThroughPipelines, PTL
===============================================================================
