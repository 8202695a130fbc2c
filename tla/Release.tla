-------------------------------- MODULE Release --------------------------------
(***************************************************************************)
(* From the contract to the registries: people edit the main branch and    *)
(* cut tags, a schedule asks the server for its contract and proposes it,  *)
(* and a tag's pipeline checks the six versions and the generated files    *)
(* (versions.ts, generate.ts, endpoints.ts and the jobs of .gitlab-ci.yml) *)
(* and publishes one library per job.  A registry never takes a version    *)
(* twice.  Contracts are numbered; a library's generated files are the     *)
(* number of the contract they were generated from.                        *)
(***************************************************************************)
EXTENDS Naturals, FiniteSets, SequencesExt

CONSTANTS
    Emitted,        \* the libraries, in the order the generator writes them
    LastContract,   \* the contracts the server goes through are 1 .. LastContract
    Versions,       \* the versions a release may get
    MaxEdits,       \* how often people change main
    MaxPipelines,   \* how often a tag is cut
    MaxReruns       \* how often failed jobs are run again

VARIABLES
    server,     \* what it answers now: its contract, and its token endpoint
    main,       \* the commit at the head of the main branch
    edits,      \* how often people have changed it
    proposal,   \* the branch contract/refresh: at most one commit
    pipelines,  \* one for every tag ever cut
    reruns,     \* how often the failed jobs of one were run again
    registry    \* what each registry holds under each version

vars == <<server, main, edits, proposal, pipelines, reruns, registry>>

Libraries == Range(Emitted)
Contracts == 1 .. LastContract

\* The repository begins with a contract and with a version.
ASSUME ReleaseAssumption ==
    /\ Emitted \in Seq(Libraries)
    /\ LastContract \in Nat \ {0} /\ 1 \in Versions /\ Versions \subseteq Nat \ {0}
    /\ MaxEdits \in Nat /\ MaxPipelines \in Nat /\ MaxReruns \in Nat

Byhand    == 0              \* files no contract describes
Unread    == 0              \* a version that is not where versions.ts looks
Nothing   == <<>>
Addresses == {"token endpoint", "moved token endpoint"}
Ended     == {"success", "failed", "canceled"}

Commits ==
    [contract : Contracts, clients : [Libraries -> Contracts \cup {Byhand}],
     says : [Libraries -> Versions \cup {Unread}], carries : [Libraries -> Addresses]]
Artefacts == [contract : Contracts, client : Contracts \cup {Byhand}]
Proposals == [commit : Commits, from : Commits, asked : Addresses]
Pipelines ==
    [tag : Versions, commit : Commits, agreed : {"waiting", "success", "failed"},
     said : {"waiting", "green", "red"}, counted : BOOLEAN,
     jobs : [Libraries -> Ended \cup {"waiting"}]]

\* Every record is of its kind, the branch holds one commit at most, and a
\* registry one artefact at most under a version.
TypeOK ==
    /\ server \in [contract : Contracts, token : Addresses]
    /\ main \in Commits /\ edits \in 0 .. MaxEdits
    /\ proposal \in Seq(Proposals) /\ Len(proposal) <= 1
    /\ pipelines \in Seq(Pipelines) /\ Len(pipelines) <= MaxPipelines /\ reruns \in 0 .. MaxReruns
    /\ registry \in [Libraries -> [Versions -> Seq(Artefacts)]]
    /\ \A l \in Libraries, v \in Versions : Len(registry[l][v]) <= 1

\* The repository as it stands: six libraries of one version, generated from the
\* contract.
Init ==
    /\ server = [contract |-> 1, token |-> "token endpoint"]
    /\ main = [contract |-> 1, clients |-> [l \in Libraries |-> 1],
               says |-> [l \in Libraries |-> 1], carries |-> [l \in Libraries |-> "token endpoint"]]
    /\ edits = 0 /\ reruns = 0 /\ proposal = Nothing /\ pipelines = <<>>
    /\ registry = [l \in Libraries |-> [v \in Versions |-> Nothing]]

-------------------------------------------------------------------------------
(* The scripts *)

\* generate.ts writes one library after the other, a file only if its content
\* moved; it may be stopped after any of them.
Regenerated(commit, n) ==
    [commit EXCEPT !.clients = [l \in Libraries |-> IF \E i \in 1 .. n : Emitted[i] = l
                                                      THEN commit.contract ELSE @[l]]]

\* Defect: one library that says the tag is enough.
OneSays(commit, version) == \E l \in Libraries : commit.says[l] = version

\* versions.ts: every library declares the tag's version where it is looked for.
AllSay(commit, version) == \A l \in Libraries : commit.says[l] = version

\* Defect: only the first library is generated again.
FirstStays(commit) == Regenerated(commit, 1) = commit

\* `bun run generate`, then `git diff --quiet`.
NothingMoves(commit) == Regenerated(commit, Len(Emitted)) = commit

\* Defect: one library that carries the address is enough.
OneCarries(commit) == \E l \in Libraries : commit.carries[l] = server.token

\* endpoints.ts: every library carries the advertised address, and no other.
EndpointsAgree(commit) == \A l \in Libraries : commit.carries[l] = server.token

-------------------------------------------------------------------------------
(* The server, and people *)

\* A bound: the server and main stand still once the last tag is cut.  The
\* pipelines work from the commits they were given, and all but the last see main
\* move on.
TagsLeft == Len(pipelines) < MaxPipelines

ServerMoves ==
    /\ TagsLeft /\ server.contract < LastContract
    /\ \E token \in Addresses : server' = [contract |-> server.contract + 1, token |-> token]
    /\ UNCHANGED <<main, edits, proposal, pipelines, reruns, registry>>

\* A commit that changes nothing is none.
Commit(commit) ==
    /\ TagsLeft /\ edits < MaxEdits /\ commit # main
    /\ edits' = edits + 1 /\ main' = commit
    /\ UNCHANGED <<server, proposal, pipelines, reruns, registry>>

Generate(n) == Commit(Regenerated(main, n))
TakeContract == Commit([main EXCEPT !.contract = server.contract])
EditByHand(l) == Commit([main EXCEPT !.clients[l] = Byhand])

\* A new address, which may miss one of the six.
Readdress(missed) ==
    Commit([main EXCEPT !.carries = [l \in Libraries |-> IF l \in missed THEN @[l] ELSE server.token]])

\* A bump, which may miss one of the six, or move one's version to where
\* versions.ts does not look.
Bump(version, missed) ==
    \E kept \in {main.says[l] : l \in missed} \cup {Unread} :
        Commit([main EXCEPT !.says = [l \in Libraries |-> IF l \in missed THEN kept ELSE version]])

\* "Bump all six, or delete the tag": a tag that stands is deleted and cut again,
\* and the pipeline it had runs on.
Tag(version) ==
    /\ TagsLeft
    /\ pipelines' = Append(pipelines,
         [tag |-> version, commit |-> main, agreed |-> "waiting", said |-> "waiting",
          counted |-> FALSE, jobs |-> [l \in Libraries |-> "waiting"]])
    /\ UNCHANGED <<server, main, edits, proposal, reruns, registry>>

-------------------------------------------------------------------------------
(* The schedule *)

\* Defect: a commit on top of the ones that are there.
PushedOnTop(commit) == Append(proposal, commit)

\* `checkout -B`, `push -f`: the branch is this commit, whatever it held.
Pushed(commit) == <<commit>>

\* contract-refresh: a document that is too short, or six libraries that do not
\* carry the server's addresses, end the job; if nothing moved it stops there.
Refresh(long) ==
    LET fetched == Regenerated([main EXCEPT !.contract = server.contract], Len(Emitted))
    IN  /\ long /\ EndpointsAgree(main) /\ fetched # main
        /\ proposal' = Pushed([commit |-> fetched, from |-> main, asked |-> server.token])
        /\ UNCHANGED <<server, main, edits, pipelines, reruns, registry>>

\* The merge request is merged, if main still has what it was made from.
Merge ==
    /\ proposal # Nothing
    /\ main.contract = proposal[1].from.contract /\ main.clients = proposal[1].from.clients
    /\ main' = [main EXCEPT !.contract = proposal[1].commit.contract, !.clients = proposal[1].commit.clients]
    /\ proposal' = Nothing
    /\ UNCHANGED <<server, edits, pipelines, reruns, registry>>

-------------------------------------------------------------------------------
(* A tag's pipeline *)

\* A job may always fail for a reason of its own.
Agree(i) ==
    LET p == pipelines[i]
    IN  /\ p.agreed = "waiting"
        /\ \E how \in {"success", "failed"} :
             /\ how = "success" => AllSay(p.commit, p.tag) /\ NothingMoves(p.commit)
             /\ pipelines' = [pipelines EXCEPT ![i].agreed = how]
        /\ UNCHANGED <<server, main, edits, proposal, reruns, registry>>

Ends(i, l, how) == pipelines' = [pipelines EXCEPT ![i].jobs[l] = how]
Runs(i, l) == pipelines[i].agreed = "success" /\ pipelines[i].jobs[l] = "waiting"

\* Published from the tag's own checkout, under the version the library says.
\* An upload whose answer is lost is a failed job as well.
Publish(i, l) ==
    LET commit == pipelines[i].commit
        under  == commit.says[l]
    IN  /\ Runs(i, l)
        /\ under # Unread /\ registry[l][under] = Nothing
        /\ registry' = [registry EXCEPT ![l][under] =
                          <<[contract |-> commit.contract, client |-> commit.clients[l]]>>]
        /\ \E how \in {"success", "failed"} : Ends(i, l, how)
        /\ UNCHANGED <<server, main, edits, proposal, reruns>>

\* The version is taken: an error, except for `--skip-duplicate`.
Refuse(i, l) ==
    /\ Runs(i, l)
    /\ pipelines[i].commit.says[l] # Unread /\ registry[l][pipelines[i].commit.says[l]] # Nothing
    /\ Ends(i, l, IF l = "nuget" THEN "success" ELSE "failed")
    /\ UNCHANGED <<server, main, edits, proposal, reruns, registry>>

Fail(i, l) ==
    /\ Runs(i, l)
    /\ \E how \in {"failed", "canceled"} : Ends(i, l, how)
    /\ UNCHANGED <<server, main, edits, proposal, reruns, registry>>

\* The word at the end, and whether the jobs were counted for it.
Says(i, word, counted) ==
    /\ pipelines' = [pipelines EXCEPT ![i].said = word, ![i].counted = counted]
    /\ UNCHANGED <<server, main, edits, proposal, reruns, registry>>
Fell(p) == p.agreed = "failed" \/ \E l \in Libraries : p.jobs[l] = "failed"
Settled(p) == p.agreed = "failed" \/ \A l \in Libraries : p.jobs[l] \in Ended

\* Defects: the word is only about the agreement; it is given when nothing failed.
SayAgreed(i) ==
    /\ pipelines[i].said = "waiting" /\ Settled(pipelines[i])
    /\ Says(i, IF pipelines[i].agreed = "failed" THEN "red" ELSE "green", TRUE)

SayOnSuccess(i) ==
    /\ pipelines[i].said = "waiting" /\ \A l \in Libraries : pipelines[i].jobs[l] = "success"
    /\ Says(i, "green", TRUE)

\* `when: always`, after everything it needs.  It counts the jobs that failed in
\* what the request for their status answers, and a request that fails counts
\* none: over jobs that fell the word is green then, uncounted, and over none that
\* did it is the word a count would give.  Or the job fails by itself.
Say(i) ==
    /\ pipelines[i].said = "waiting" /\ Settled(pipelines[i])
    /\ \/ Says(i, "red", FALSE)
       \/ ~Fell(pipelines[i]) /\ Says(i, "green", TRUE)
       \/ Fell(pipelines[i]) /\ Says(i, "green", FALSE)

\* Somebody runs the jobs that fell again.
Rerun(i) ==
    LET p == pipelines[i]
    IN  /\ p.said = "red" /\ p.agreed = "success" /\ reruns < MaxReruns
        /\ pipelines' = [pipelines EXCEPT
             ![i].jobs = [l \in Libraries |-> IF @[l] = "failed" THEN "waiting" ELSE @[l]],
             ![i].said = "waiting", ![i].counted = FALSE]
        /\ reruns' = reruns + 1
        /\ UNCHANGED <<server, main, edits, proposal, registry>>

JobEnds ==
    \E i \in DOMAIN pipelines :
        \/ Agree(i) \/ Say(i)
        \/ \E l \in Libraries : Publish(i, l) \/ Refuse(i, l) \/ Fail(i, l)

Next ==
    \/ ServerMoves
    \/ \E n \in 1 .. Len(Emitted) : Generate(n)
    \/ TakeContract
    \/ \E l \in Libraries : EditByHand(l)
    \/ \E missed \in {{}} \cup {{l} : l \in Libraries} :
         Readdress(missed) \/ \E v \in Versions : Bump(v, missed)
    \/ \E v \in Versions : Tag(v)
    \/ \E long \in BOOLEAN : Refresh(long)
    \/ Merge
    \/ \E i \in DOMAIN pipelines :
         \/ Agree(i) \/ Say(i) \/ Rerun(i)
         \/ \E l \in Libraries : Publish(i, l) \/ Refuse(i, l) \/ Fail(i, l)

Spec == Init /\ [][Next]_vars

\* A runner picks every job up, and every job ends.
FairSpec == Spec /\ WF_vars(JobEnds)

-------------------------------------------------------------------------------
Cuts(version) == {i \in DOMAIN pipelines : pipelines[i].tag = version}

\* Nothing is published that the generator would not write from the contract at
\* its tag: not after a generation that was stopped half way, not after an edit
\* by hand, not after a contract that was taken over without generating.
PublishedAsGenerated ==
    \A l \in Libraries, v \in Versions :
        registry[l][v] # Nothing => registry[l][v][1].client = registry[l][v][1].contract

\* "A caller reasonably assumes matching versions describe the same api": all
\* that is published under one version was generated from one contract, unless
\* the tag was deleted and cut again.
MatchingVersions ==
    \A l, k \in Libraries, v \in Versions :
        (registry[l][v] # Nothing /\ registry[k][v] # Nothing /\ Cardinality(Cuts(v)) = 1)
        => registry[l][v][1].client = registry[k][v][1].client

\* "All six went out", said by a job that did get its count, is said only when
\* they are in their registries, through lost answers, duplicates and reruns,
\* unless a job was canceled.  A count that could not be asked for reads as none
\* that failed, and the word is green then over anything: see the hazards.
GreenMeansSix ==
    \A p \in Range(pipelines) :
        (p.said = "green" /\ p.counted /\ \A l \in Libraries : p.jobs[l] # "canceled")
        => \A l \in Libraries : registry[l][p.tag] # Nothing

\* What contract/refresh proposes is a whole contract with six libraries
\* generated from it, which carry the address the server advertised then.
ProposesWhatGenerates ==
    proposal # Nothing =>
        \A l \in Libraries :
            /\ proposal[1].commit.clients[l] = proposal[1].commit.contract
            /\ proposal[1].commit.carries[l] = proposal[1].asked

\* Every tag's pipeline ends with a word on who went out, the ones that failed
\* included.
EveryTagIsSaid == []<>(\A p \in Range(pipelines) : p.said # "waiting")
================================================================================
