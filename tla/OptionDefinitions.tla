-------------------------- MODULE OptionDefinitions --------------------------
(* The option definitions of worlds: the pages that ask for them, the cache *)
(* in Valkey that every lobby process shares, and the jobs that generate    *)
(* them on a worker of the right base (lobby/src/views/options_gen.rs, the  *)
(* callback in jobs.rs, the queue in lib.rs). The queue's protocol is       *)
(* WorkQueue's; here a job is queued, claimed and resolved, or left.        *)
(*                                                                          *)
(* One world; an index tells the releases of it that each base sees. The    *)
(* queue of option definitions has no reclaim checker: a job whose worker   *)
(* died stays claimed.                                                      *)
EXTENDS BasesOnOffer

CONSTANTS Requests,    \* the requests that are served at once
          Config,      \* what the operator offers
          Indexes,     \* the indexes that may be loaded
          Rels,        \* the releases of the world
          MaxJobs,     \* bound on the jobs
          MaxRefresh,  \* bound on the refreshes of the index
          MaxShed      \* bound on the definitions that expire

VARIABLES
  index,    \* the loaded index
  cache,    \* the definitions in Valkey, by key; each is the [base, rel] it is of
  jobs,     \* the jobs, in the order they were enqueued
  req,      \* what each request is doing
  preload,  \* the definitions that a process that starts has still to look at; None before
  refreshes, shed

vars == <<index, cache, jobs, req, preload, refreshes, shed>>

\* OptionsCache is given the legacy base of the index that is loaded first: the indexes have the same.
Legacy == (CHOOSE i \in Indexes : TRUE).legacy
Bases == UNION {Described(i) : i \in Indexes}

\* A request: where it is, what it asks for, what it has found, and, once it is over, its answer
Idle == [pc |-> "idle", kind |-> None, query |-> None, base |-> None, rel |-> None,
         defs |-> None, job |-> 0, lost |-> FALSE, error |-> None, link |-> None]
Def(base, rel) == [base |-> base, rel |-> rel]
Unreadable == Def(None, None)

(* Mistake: definitions of all bases share the keys. *)
KeyShared(base, rel) == <<rel>>

\* OptionsCache::key: the legacy base keeps the keys without a base.
Key(base, rel) == IF base = Legacy THEN <<rel>> ELSE <<base, rel>>

\* OptionsCache::get: what cannot be read is not there.
Get(base, rel) ==
  IF Key(base, rel) \in DOMAIN cache /\ cache[Key(base, rel)] # Unreadable THEN cache[Key(base, rel)] ELSE None

\* OptionsCache::contains
HasDef(base, rel) == Key(base, rel) \in DOMAIN cache

\* OptionsCache::insert
Insert(base, rel, def) ==
  cache' = [k \in DOMAIN cache \cup {Key(base, rel)} |-> IF k = Key(base, rel) THEN def ELSE cache[k]]

\* There is room for the job of one more request.
Room == Len(jobs) + Cardinality({r \in Requests : req[r].pc \notin {"idle", "wait", "reread", "render"}}) < MaxJobs

Become(r, x) == req' = [req EXCEPT ![r] = x]

\* A request is over: with an error, or a page.
Failed == [Idle EXCEPT !.error = "failed"]
Fail(r) == Become(r, Failed)

\* From here on all that counts of a request is what it asks for.
Wanted(r, rel) == Become(r, [Idle EXCEPT !.pc = "get", !.query = req[r].query, !.base = req[r].base, !.rel = rel])
Show(r, rel, defs) == Become(r, [req[r] EXCEPT !.pc = "render", !.rel = rel, !.defs = defs])

\* Valkey may hold what an older lobby left: definitions in another form, a job without a version.
Init ==
  /\ index \in Indexes
  /\ \/ cache = <<>> /\ jobs = <<>>
     \/ /\ cache = [k \in {Key(Legacy, Max(Rels))} |-> Unreadable]
        /\ jobs = <<[base |-> Legacy, rel |-> Min(Rels), ap |-> None, state |-> "queued"]>>
  /\ req = [r \in Requests |-> Idle]
  /\ preload = None
  /\ refreshes = 0 /\ shed = 0

-----------------------------------------------------------------------------
\* A request comes in: options_gen ("home"), options_gen_api ("page"), options_apworld_versions
\* ("versions"), edit_yaml ("edit"), download_yaml ("download"). Its base is resolved.
Begin(r, kind, query, rel) ==
  LET base == RequestedBase(Config, index, query)
  IN /\ IF base = NoVersion THEN Fail(r)
        ELSE Become(r, [Idle EXCEPT !.pc = "look", !.kind = kind, !.query = query, !.base = base, !.rel = rel])
     /\ UNCHANGED <<index, cache, jobs, preload, refreshes, shed>>

Known(r) == req[r].base \in Described(index)
Seen(r) == index.rels[req[r].base]

\* options_gen looks the base's index up, for the list of its worlds.
OptionsGen(r) ==
  /\ req[r].pc = "look" /\ req[r].kind = "home"
  /\ IF Known(r) THEN Show(r, None, None) ELSE Fail(r)
  /\ UNCHANGED <<index, cache, jobs, preload, refreshes, shed>>

\* options_apworld_versions finds the newest release and hands over to options_gen_api, which
\* resolves the base again.
OptionsApworldVersions(r) ==
  /\ req[r].pc = "look" /\ req[r].kind = "versions"
  /\ IF ~Known(r) THEN Fail(r)
     ELSE IF Seen(r) = {} THEN Fail(r)
     ELSE Become(r, [req[r] EXCEPT !.pc = "again", !.rel = Max(Seen(r))])
  /\ UNCHANGED <<index, cache, jobs, preload, refreshes, shed>>

HandOver(r) ==
  /\ req[r].pc = "again"
  /\ Begin(r, "page", req[r].query, req[r].rel)

\* options_gen_api: the release has to be one the base sees.
OptionsGenApi(r) ==
  /\ req[r].pc = "look" /\ req[r].kind = "page"
  /\ IF ~Known(r) THEN Fail(r)
     ELSE IF Seen(r) = {} THEN Fail(r)
     ELSE IF req[r].rel \notin Seen(r) THEN Fail(r)
     ELSE Wanted(r, req[r].rel)
  /\ UNCHANGED <<index, cache, jobs, preload, refreshes, shed>>

\* edit_yaml: the newest release of the YAML's game.
EditYaml(r) ==
  /\ req[r].pc = "look" /\ req[r].kind = "edit"
  /\ IF ~Known(r) THEN Fail(r)
     ELSE IF Seen(r) = {} THEN Fail(r)
     ELSE Wanted(r, Max(Seen(r)))
  /\ UNCHANGED <<index, cache, jobs, preload, refreshes, shed>>

\* download_yaml: the release that its page named.
DownloadYaml(r) ==
  /\ req[r].pc = "look" /\ req[r].kind = "download"
  /\ IF ~Known(r) THEN Fail(r)
     ELSE IF Seen(r) = {} THEN Fail(r)
     ELSE IF req[r].rel \notin Seen(r) THEN Fail(r)
     ELSE Wanted(r, req[r].rel)
  /\ UNCHANGED <<index, cache, jobs, preload, refreshes, shed>>

-----------------------------------------------------------------------------
\* get_options_def: the cached definitions, or a job in the queue of the base's workers ...
GetOptionsDef(r) ==
  /\ req[r].pc = "get"
  /\ LET cached == Get(req[r].base, req[r].rel)
     IN IF cached # None THEN Show(r, req[r].rel, cached) ELSE Become(r, [req[r] EXCEPT !.pc = "enqueue"])
  /\ UNCHANGED <<index, cache, jobs, preload, refreshes, shed>>

\* (enqueue_job_in, from the parameters of get_options_def and of the preload)
EnqueueJobIn(base, rel) ==
  jobs' = Append(jobs, [base |-> base, rel |-> rel, ap |-> base, state |-> "queued"])

Enqueue(r) ==
  /\ req[r].pc = "enqueue"
  /\ EnqueueJobIn(req[r].base, req[r].rel)
  /\ Become(r, [req[r] EXCEPT !.pc = "wait", !.job = Len(jobs) + 1])
  /\ UNCHANGED <<index, cache, preload, refreshes, shed>>

(* Mistake: the wait has no end of its own. *)
WaitForJobForever(r) ==
  /\ req[r].pc = "wait"
  /\ LET state == jobs[req[r].job].state
     IN \/ state = "Success" /\ Become(r, [req[r] EXCEPT !.pc = "reread"])
        \/ state = "Failed" /\ Fail(r)
  /\ UNCHANGED <<index, cache, jobs, preload, refreshes, shed>>

\* ... whose status is waited for, 30 seconds at most ...
WaitForJob(r) ==
  /\ req[r].pc = "wait"
  /\ LET state == jobs[req[r].job].state
     IN \/ state = "Success" /\ Become(r, [req[r] EXCEPT !.pc = "reread"])
        \/ state = "Failed" /\ Fail(r)
        \/ Fail(r)
  /\ UNCHANGED <<index, cache, jobs, preload, refreshes, shed>>

\* ... and which the callback has stored by then.
Reread(r) ==
  /\ req[r].pc = "reread"
  /\ LET cached == Get(req[r].base, req[r].rel)
     IN IF cached # None THEN Show(r, req[r].rel, cached)
        ELSE Become(r, [Idle EXCEPT !.error = "missing", !.lost = req[r].lost])
  /\ UNCHANGED <<index, cache, jobs, preload, refreshes, shed>>

Page(r, link) == Become(r, [Idle EXCEPT !.link = link])

\* A page is made: its links stay on its base.
Render(r) ==
  /\ req[r].pc = "render"
  /\ Page(r, BaseQuery(Config, index, req[r].base))
  /\ UNCHANGED <<index, cache, jobs, preload, refreshes, shed>>

-----------------------------------------------------------------------------
\* Workers of a base take the jobs of its partition. A job past its deadline is dropped, and one
\* whose worker died stays claimed: both are lost.
WorkerStep(i) ==
  /\ i \in DOMAIN jobs
  /\ \/ jobs[i].state = "queued" /\ jobs' = [jobs EXCEPT ![i].state = "claimed"]
     \/ jobs[i].state \in {"queued", "claimed"} /\ jobs' = [jobs EXCEPT ![i].state = "lost"]
  /\ UNCHANGED <<index, cache, req, preload, refreshes, shed>>

\* A worker generates with the worlds of its own base.
Generated(job) == Def(job.base, job.rel)

\* The callback of a resolved job stores the definitions of a successful one. A job that was not
\* successful, or whose definitions could not be stored, is reported as failed. A worker may answer
\* success without any: nothing is stored, and who waits for the job will find nothing.
OptionsGenCallback(i) ==
  /\ i \in DOMAIN jobs /\ jobs[i].state = "claimed"
  /\ \/ /\ Insert(IF jobs[i].ap = None THEN Legacy ELSE jobs[i].ap, jobs[i].rel, Generated(jobs[i]))
        /\ jobs' = [jobs EXCEPT ![i].state = "stored"]
        /\ UNCHANGED req
     \/ /\ jobs' = [jobs EXCEPT ![i].state = "stored"]
        /\ req' = [r \in Requests |->
                     IF req[r].pc = "wait" /\ req[r].job = i THEN [req[r] EXCEPT !.lost = TRUE] ELSE req[r]]
        /\ UNCHANGED cache
     \/ jobs' = [jobs EXCEPT ![i].state = "Failed"] /\ UNCHANGED <<cache, req>>
  /\ UNCHANGED <<index, preload, refreshes, shed>>

\* Then the queue reports the job.
Report(i) ==
  /\ i \in DOMAIN jobs /\ jobs[i].state = "stored"
  /\ jobs' = [jobs EXCEPT ![i].state = "Success"]
  /\ UNCHANGED <<index, cache, req, preload, refreshes, shed>>

\* on_liftoff of a lobby process: the newest release for every base on offer, ...
PreloadStart ==
  /\ preload = None
  /\ preload' = {<<b, Max(index.rels[b])>> : b \in {c \in ToSet(Offered(Config, index)) : index.rels[c] # {}}}
  /\ UNCHANGED <<index, cache, jobs, req, refreshes, shed>>

\* ... each of which gets a job unless it is there. Nobody waits for it.
PreloadOne ==
  /\ preload # None
  /\ \E d \in preload :
       /\ preload' = preload \ {d}
       /\ \/ HasDef(d[1], d[2]) /\ UNCHANGED jobs
          \/ ~HasDef(d[1], d[2]) /\ Room /\ EnqueueJobIn(d[1], d[2])
  /\ UNCHANGED <<index, cache, req, refreshes, shed>>

-----------------------------------------------------------------------------
\* Definitions expire after a day. A request that waits for them may find nothing.
Expire ==
  /\ shed < MaxShed /\ shed' = shed + 1
  /\ \E k \in DOMAIN cache :
       /\ cache' = [l \in DOMAIN cache \ {k} |-> cache[l]]
       /\ req' = [r \in Requests |->
                    IF req[r].pc \in {"wait", "reread"} /\ Key(req[r].base, req[r].rel) = k
                    THEN [req[r] EXCEPT !.lost = TRUE] ELSE req[r]]
  /\ UNCHANGED <<index, jobs, preload, refreshes>>

\* IndexFollow's load of another commit
Refresh ==
  /\ refreshes < MaxRefresh /\ refreshes' = refreshes + 1
  /\ index' \in Indexes \ {index}
  /\ UNCHANGED <<cache, jobs, req, preload, shed>>

Queries == Bases \cup {None, NoVersion}

Ask(r) ==
  /\ req[r].pc = "idle" /\ Room
  /\ \E q \in Queries :
       \/ \E kind \in {"home", "versions", "edit"} : Begin(r, kind, q, None)
       \/ \E kind \in {"page", "download"}, rel \in Rels : Begin(r, kind, q, rel)

ReqStep(r) ==
  \/ OptionsGen(r) \/ OptionsApworldVersions(r) \/ HandOver(r) \/ OptionsGenApi(r) \/ EditYaml(r) \/ DownloadYaml(r)
  \/ GetOptionsDef(r) \/ Enqueue(r) \/ WaitForJob(r) \/ Reread(r) \/ Render(r)

Next ==
  \/ \E r \in Requests : Ask(r) \/ ReqStep(r)
  \/ \E i \in 1..MaxJobs : WorkerStep(i) \/ OptionsGenCallback(i) \/ Report(i)
  \/ PreloadStart \/ PreloadOne \/ Expire \/ Refresh

Spec == Init /\ [][Next]_vars /\ \A r \in Requests : WF_req(ReqStep(r))

-----------------------------------------------------------------------------
\* The definitions a page shows were generated on the page's own base, for its own release:
\* whatever process ran the callback, and whatever was cached before definitions had a base.
DefinitionsOfTheBase ==
  \A r \in Requests : req[r].defs # None => req[r].defs = Def(req[r].base, req[r].rel)

\* A request whose job was successful gets the definitions, unless they expired while it waited or
\* the worker had sent none: the callback stores them before the job is reported.
StoredBeforeReported ==
  \A r \in Requests : req[r].error = "missing" => req[r].lost

\* A page's links lead to the page's own base or are refused, at the time it is made: never to
\* another base, though the default base may have changed while its definitions were generated.
LinksStayOnBase ==
  [][\A r \in Requests :
       (req[r].pc = "render" /\ req'[r].pc = "idle") =>
         RequestedBase(Config, index, req'[r].link) \in {req[r].base, NoVersion}]_req

\* Every request is answered, whatever happens to its job: one whose worker died is never
\* reclaimed, and the wait ends by itself.
RequestsEnd == \A r \in Requests : (req[r].pc # "idle") ~> (req[r].pc = "idle")
=============================================================================
