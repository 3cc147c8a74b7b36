----------------------------- MODULE ShellCache -----------------------------
(***************************************************************************)
(* The offline shell of Handlemodus: the service worker of each build      *)
(* (apps/web/public/sw.js), and the page that asks whether it may be       *)
(* relied on (apps/web/lib/handle-mode-offline-readiness.ts).              *)
(*                                                                         *)
(* A worker's handlers run concurrently and stop at every await; a worker  *)
(* that was superseded may still finish the ones it has begun.  Cache      *)
(* storage is shared by all workers of the origin: opening a cache creates *)
(* it, and one that is deleted lives on for those who have it open.        *)
(***************************************************************************)
EXTENDS Naturals, FiniteSets

CONSTANTS
  ShellBuild,     \* public build ids
  NWorker,        \* bound: workers registered one after the other
  MaxDeploys,     \* bound: releases of another build
  MaxShellFaults  \* bound: damaged caches and killed workers

ASSUME ShellAssumption ==
  /\ NWorker \in Nat \ {0} /\ ShellBuild # {}
  /\ MaxDeploys \in Nat /\ MaxShellFaults \in Nat

CacheKind == {"shell", "repair", "runtime"}
CacheName == CacheKind \X ShellBuild
Worker == 1..NWorker
(* The install or activate handler, two ensureHandleModeOfflineReady() and *)
(* one cacheFirst().                                                       *)
Handler == {"life", "ensure", "again", "asset"}
Ensures == {"ensure", "again"}

VARIABLES
  served,    \* the build that the server has deployed
  cacheOf,   \* what is stored under each cache name
  worker,    \* life cycle and build of each worker
  task,      \* the handlers under way
  page,      \* the page: its build, and what it knows of its offline shell
  deploys,      \* releases so far (bound)
  shellFaults,  \* faults so far (bound)
  killed        \* history: the browser ended a worker in the middle of something

shellVars == <<served, cacheOf, worker, task, page, deploys, shellFaults, killed>>

(* "partial" is also a runtime cache with some assets.  A handle is open   *)
(* on the cache of that name, or on what it held when it was deleted.      *)
Contents == {"absent", "partial", "ready"}
ShellTask ==
  [step : {"idle", "names", "open", "check", "document", "rest", "verify", "recheck",
           "sweep", "match", "runtime", "opened", "fetch", "stored"},
   find : BOOLEAN,       \* looking for a ready cache, or populating one
   names : SUBSET CacheName,
   kind : CacheKind,
   handle : {"none", "attached"} \cup Contents]
NoTask == [step |-> "idle", find |-> FALSE, names |-> {}, kind |-> "shell", handle |-> "none"]

ShellTypeOK ==
  /\ served \in ShellBuild
  /\ cacheOf \in [CacheName -> Contents]
  /\ worker \in [Worker -> [state : {"none", "installing", "installed", "activating",
                                     "active", "redundant"}, build : ShellBuild]]
  /\ task \in [Worker \X Handler -> ShellTask]
  /\ page \in [build : ShellBuild, proof : {"none", "asking", "ready"}]
  /\ deploys \in 0..MaxDeploys /\ shellFaults \in 0..MaxShellFaults /\ killed \in BOOLEAN

ShellInit ==
  /\ served = CHOOSE b \in ShellBuild : TRUE
  /\ cacheOf = [c \in CacheName |-> "absent"]
  /\ worker = [w \in Worker |-> [state |-> "none", build |-> served]]
  /\ task = [t \in Worker \X Handler |-> NoTask]
  /\ page = [build |-> served, proof |-> "none"]
  /\ deploys = 0 /\ shellFaults = 0 /\ killed = FALSE

-----------------------------------------------------------------------------
(* A ...Mutant is a deliberate error in the definition after it.           *)
BuildOf(w) == worker[w].build
Named(w, k) == <<k, BuildOf(w)>>
OwnCaches(w) == {Named(w, k) : k \in CacheKind}

(* registration.active is this worker: its build names it.                 *)
InCharge == {w \in Worker : worker[w].state \in {"activating", "active"}}
IsCurrent(w) == \E v \in InCharge : BuildOf(v) = BuildOf(w)

Busy(w) == \E h \in Handler : task[<<w, h>>].step # "idle"
Visible == {c \in CacheName : cacheOf[c] # "absent"}

Surroundings == UNCHANGED <<served, deploys, shellFaults, killed>>
Rest == Surroundings /\ UNCHANGED page

(* Handler h of worker w becomes r; caches.delete of every name in S.      *)
Detached(u, S) ==
  LET t == task[u] IN
  IF t.handle = "attached" /\ Named(u[1], t.kind) \in S
    THEN [t EXCEPT !.handle = cacheOf[Named(u[1], t.kind)]] ELSE t
Deleting(w, h, r, S) ==
  /\ task' = [u \in Worker \X Handler |-> IF u = <<w, h>> THEN r ELSE Detached(u, S)]
  /\ cacheOf' = [c \in CacheName |-> IF c \in S THEN "absent" ELSE cacheOf[c]]
Going(w, h, r) == task' = [task EXCEPT ![<<w, h>>] = r] /\ UNCHANGED cacheOf

(* caches.open creates the cache if there is none.                         *)
Opening(w, h, r) ==
  LET c == Named(w, r.kind) IN
  /\ task' = [task EXCEPT ![<<w, h>>] = [r EXCEPT !.handle = "attached"]]
  /\ cacheOf' = [cacheOf EXCEPT ![c] = IF @ = "absent" THEN "partial" ELSE @]

(* cache.put through a handle.                                             *)
Putting(w, h, r, content) ==
  IF r.handle = "attached"
    THEN /\ task' = [task EXCEPT ![<<w, h>>] = r]
         /\ cacheOf' = [cacheOf EXCEPT ![Named(w, r.kind)] = content]
    ELSE Going(w, h, [r EXCEPT !.handle = content])

(* handleModeOfflineReady() through a handle.                              *)
OfflineReady(w, t) ==
  (IF t.handle = "attached" THEN cacheOf[Named(w, t.kind)] ELSE t.handle) = "ready"

-----------------------------------------------------------------------------
(* Life cycle of a worker, which the browser drives.                       *)

(* The page registers the worker of its build, unless the newest one is    *)
(* that already.                                                           *)
Register(w) ==
  /\ worker[w].state = "none" /\ \A v \in Worker : v < w => worker[v].state # "none"
  /\ \A v \in Worker : worker[v].state # "installing"
                       /\ (worker[v].state \in {"installed", "activating", "active"}
                           => BuildOf(v) # page.build)
  /\ worker' = [worker EXCEPT ![w] = [state |-> "installing", build |-> page.build]]
  /\ task' = [task EXCEPT ![<<w, "life">>] = [NoTask EXCEPT !.step = "open"]]
  /\ UNCHANGED cacheOf /\ Rest

(* The install handler empties the caches of its build and populates the   *)
(* shell; populateShellCache() is the same for a repair.                   *)
Populates(w, h) == ~task[<<w, h>>].find /\ worker[w].state # "none"
PopulateOpens(w, h) ==
  LET r == [task[<<w, h>>] EXCEPT !.step = "document"] IN
  /\ task[<<w, h>>].step = "open" /\ Populates(w, h)
  /\ task' = [u \in Worker \X Handler |->
       IF u = <<w, h>> THEN [r EXCEPT !.handle = "attached"]
       ELSE Detached(u, IF h = "life" THEN OwnCaches(w) ELSE {Named(w, r.kind)})]
  /\ cacheOf' = [c \in CacheName |->
       IF c = Named(w, r.kind) THEN "partial"
       ELSE IF h = "life" /\ c \in OwnCaches(w) THEN "absent" ELSE cacheOf[c]]
  /\ UNCHANGED worker /\ Rest

(* The document must carry the marker of the worker's own build.           *)
DocumentAcceptable(w) == served = BuildOf(w)
FetchDocument(w, h) ==
  /\ task[<<w, h>>].step = "document"
  /\ DocumentAcceptable(w)
  /\ Putting(w, h, [task[<<w, h>>] EXCEPT !.step = "rest"], "partial")
  /\ UNCHANGED worker /\ Rest

(* Everything else of the shell, and all that its document refers to: a    *)
(* later build may still have it.                                          *)
FetchRest(w, h) ==
  /\ task[<<w, h>>].step = "rest"
  /\ Putting(w, h, [task[<<w, h>>] EXCEPT !.step = "verify"], "ready")
  /\ UNCHANGED worker /\ Rest

(* A response that is missing or not acceptable, or a cache that is not    *)
(* ready after all: what was populated is deleted.                         *)
Fails(w, h) ==
  \/ task[<<w, h>>].step \in {"document", "rest"}
  \/ task[<<w, h>>].step = "verify" /\ ~OfflineReady(w, task[<<w, h>>])

InstallFails(w) ==
  /\ worker[w].state = "installing" /\ Fails(w, "life")
  /\ Deleting(w, "life", NoTask, OwnCaches(w))
  /\ worker' = [worker EXCEPT ![w].state = "redundant"]
  /\ Rest

(* skipWaiting(); a worker that was waiting is replaced.                   *)
Installed(w) ==
  /\ worker[w].state = "installing" /\ task[<<w, "life">>].step = "verify"
  /\ OfflineReady(w, task[<<w, "life">>])
  /\ Going(w, "life", NoTask)
  /\ worker' = [v \in Worker |->
       IF v = w THEN [worker[v] EXCEPT !.state = "installed"]
       ELSE IF worker[v].state = "installed" THEN [worker[v] EXCEPT !.state = "redundant"]
       ELSE worker[v]]
  /\ Rest

(* The active worker must have been activated itself, and one that was     *)
(* superseded before must have ended by now.                               *)
Activate(w) ==
  /\ worker[w].state = "installed"
  /\ \A v \in Worker : /\ worker[v].state # "activating"
                       /\ worker[v].state = "redundant" => ~Busy(v)
  /\ worker' = [v \in Worker |->
       IF v = w THEN [worker[v] EXCEPT !.state = "activating"]
       ELSE IF worker[v].state = "active" THEN [worker[v] EXCEPT !.state = "redundant"]
       ELSE worker[v]]
  /\ task' = [task EXCEPT ![<<w, "life">>] = [NoTask EXCEPT !.step = "names"]]
  /\ page' = [page EXCEPT !.proof = "none"]
  /\ UNCHANGED cacheOf /\ Surroundings

(* The activate handler lists the caches, and deletes those of others.     *)
RetireNames(w) ==
  /\ worker[w].state = "activating" /\ task[<<w, "life">>].step = "names"
  /\ Going(w, "life", [NoTask EXCEPT !.step = "sweep", !.names = Visible \ OwnCaches(w)])
  /\ UNCHANGED worker /\ Rest

Sweep(w) ==
  /\ worker[w].state = "activating" /\ task[<<w, "life">>].step = "sweep"
  /\ Deleting(w, "life", NoTask, task[<<w, "life">>].names)
  /\ worker' = [worker EXCEPT ![w].state = "active"]
  /\ Rest

-----------------------------------------------------------------------------
(* findOfflineReadyShellCache(): the repair cache first, then the          *)
(* installed one; a cache that the listing did not have is not opened.     *)
NextKind(t) ==
  IF t.step = "names" /\ \E c \in t.names : c[1] = "repair" THEN {"repair"}
  ELSE IF (t.step = "names" \/ t.kind = "repair") /\ \E c \in t.names : c[1] = "shell"
    THEN {"shell"} ELSE {}
Looking(t) == [t EXCEPT !.step = "open", !.kind = CHOOSE k \in NextKind(t) : TRUE]

(* What follows when none is ready: a repair, or the runtime cache.        *)
NotFound(w, h) ==
  IF ~IsCurrent(w) THEN NoTask
  ELSE IF h \in Ensures THEN [NoTask EXCEPT !.step = "open", !.kind = "repair"]
  ELSE [NoTask EXCEPT !.step = "runtime", !.kind = "runtime"]

(* The page hears the answer, unless it asked another worker.              *)
Answered(w, h, ready) ==
  page' = IF h \in Ensures /\ worker[w].state = "active" /\ BuildOf(w) = page.build
            THEN [page EXCEPT !.proof =
                    IF @ # "asking" THEN @
                    ELSE IF ready THEN "ready" ELSE "none"]
            ELSE page
Ends(w, h, r, ready) == IF r = NoTask THEN Answered(w, h, ready) ELSE UNCHANGED page

FindNames(w, h) ==
  LET t == [task[<<w, h>>] EXCEPT !.names = Visible \cap OwnCaches(w)]
      r == IF NextKind(t) = {} THEN NotFound(w, h) ELSE Looking(t) IN
  /\ task[<<w, h>>].step = "names" /\ task[<<w, h>>].find
  /\ Going(w, h, r)
  /\ Ends(w, h, r, FALSE)
  /\ UNCHANGED worker /\ Surroundings

FindOpens(w, h) ==
  /\ task[<<w, h>>].step = "open" /\ task[<<w, h>>].find
  /\ Opening(w, h, [task[<<w, h>>] EXCEPT !.step = "check"])
  /\ UNCHANGED worker /\ Rest

(* A cache that is not ready is deleted by a worker that is not current.   *)
KeptMutant(w, t) == {}
Dropped(w, t) == IF IsCurrent(w) THEN {} ELSE {Named(w, t.kind)}

(* One that is ready is the answer, or is asked for the asset.             *)
Found(h) == IF h \in Ensures THEN NoTask ELSE [NoTask EXCEPT !.step = "match"]

FindChecks(w, h) ==
  LET t == task[<<w, h>>]
      r == IF NextKind(t) = {} THEN NotFound(w, h) ELSE Looking(t) IN
  /\ t.step = "check"
  /\ IF OfflineReady(w, t)
       THEN /\ Going(w, h, Found(h))
            /\ Answered(w, h, TRUE)
       ELSE /\ Deleting(w, h, r, Dropped(w, t))
            /\ Ends(w, h, r, FALSE)
  /\ UNCHANGED worker /\ Surroundings

-----------------------------------------------------------------------------
(* ensureHandleModeOfflineReady(), for a shell request or for the page.    *)
UnguardedMutant(w) == {h \in Ensures : task[<<w, h>>].step = "idle"}
FreeEnsure(w) ==
  IF \A h \in Ensures : task[<<w, h>>].step = "idle" THEN {"ensure"} ELSE {}

Ensure(w) ==
  /\ worker[w].state = "active"
  /\ \E h \in FreeEnsure(w) : Going(w, h, [NoTask EXCEPT !.step = "names", !.find = TRUE])

(* A shell request: its answer comes from the network, or from a cache     *)
(* that is found ready.                                                    *)
ShellRequest(w) == Ensure(w) /\ UNCHANGED worker /\ Rest

(* The page asks the active worker if it is of the page's own build; a     *)
(* second call shares the attempt under way.                               *)
PageAsks(w) ==
  /\ worker[w].state = "active" /\ BuildOf(w) = page.build
  /\ page.proof = "none"
  /\ page' = [page EXCEPT !.proof = "asking"]
  /\ Ensure(w) \/ (FreeEnsure(w) = {} /\ UNCHANGED <<task, cacheOf>>)
  /\ UNCHANGED worker /\ Surroundings

RepairVerified(w, h) ==
  /\ h \in Ensures /\ task[<<w, h>>].step = "verify" /\ OfflineReady(w, task[<<w, h>>])
  /\ Going(w, h, [task[<<w, h>>] EXCEPT !.step = "recheck"])
  /\ UNCHANGED worker /\ Rest

(* A repair that outlived its worker's charge is taken back.               *)
RepairEnds(w, h) ==
  /\ h \in Ensures /\ task[<<w, h>>].step = "recheck"
  /\ IF IsCurrent(w) THEN Going(w, h, NoTask)
     ELSE Deleting(w, h, NoTask, {Named(w, "repair")})
  /\ Answered(w, h, IsCurrent(w))
  /\ UNCHANGED worker /\ Surroundings

RepairFails(w, h) ==
  /\ h \in Ensures /\ Fails(w, h)
  /\ Deleting(w, h, NoTask, {Named(w, "repair")})
  /\ Answered(w, h, FALSE)
  /\ UNCHANGED worker /\ Surroundings

-----------------------------------------------------------------------------
(* cacheFirst(), for an asset or an icon.                                  *)
AssetRequest(w) ==
  /\ worker[w].state = "active" /\ task[<<w, "asset">>].step = "idle"
  /\ Going(w, "asset", [NoTask EXCEPT !.step = "names", !.find = TRUE])
  /\ UNCHANGED worker /\ Rest

(* The ready shell has the asset, or it may lack it like one not ready.    *)
AssetMatched(w) ==
  /\ task[<<w, "asset">>].step = "match"
  /\ \E r \in {NoTask, NotFound(w, "asset")} : Going(w, "asset", r)
  /\ UNCHANGED worker /\ Rest

OpenRuntime(w) ==
  /\ task[<<w, "asset">>].step = "runtime"
  /\ Opening(w, "asset", [task[<<w, "asset">>] EXCEPT !.step = "opened"])
  /\ UNCHANGED worker /\ Rest

(* Superseded during the wait: what the open may have created goes again.  *)
UncheckedMutant(w) == Going(w, "asset", [task[<<w, "asset">>] EXCEPT !.step = "fetch"])
AfterOpen(w) ==
  IF IsCurrent(w) THEN Going(w, "asset", [task[<<w, "asset">>] EXCEPT !.step = "fetch"])
  ELSE Deleting(w, "asset", NoTask, {Named(w, "runtime")})

RuntimeOpened(w) ==
  /\ task[<<w, "asset">>].step = "opened"
  /\ AfterOpen(w)
  /\ UNCHANGED worker /\ Rest

(* Found in the runtime cache, or fetched and not stored; a worker that    *)
(* was superseded by now leaves the cache to its successor's sweep.        *)
AssetServed(w) ==
  /\ task[<<w, "asset">>].step = "fetch"
  /\ Going(w, "asset", NoTask)
  /\ UNCHANGED worker /\ Rest

StoreAsset(w) ==
  /\ task[<<w, "asset">>].step = "fetch" /\ IsCurrent(w)
  /\ Putting(w, "asset", [task[<<w, "asset">>] EXCEPT !.step = "stored"], "partial")
  /\ UNCHANGED worker /\ Rest

AssetStored(w) ==
  /\ task[<<w, "asset">>].step = "stored"
  /\ IF IsCurrent(w) THEN Going(w, "asset", NoTask)
     ELSE Deleting(w, "asset", NoTask, {Named(w, "runtime")})
  /\ UNCHANGED worker /\ Rest

-----------------------------------------------------------------------------
(* The surroundings.                                                       *)
DeployBuild ==
  /\ deploys < MaxDeploys /\ deploys' = deploys + 1
  /\ served' \in ShellBuild \ {served}
  /\ UNCHANGED <<cacheOf, worker, task, page, shellFaults, killed>>

(* A navigation, from the network.                                         *)
LoadPage ==
  /\ page' = [build |-> served, proof |-> "none"]
  /\ page' # page
  /\ UNCHANGED <<cacheOf, worker, task>> /\ Surroundings

PageTimesOut ==
  /\ page.proof = "asking"
  /\ page' = [page EXCEPT !.proof = "none"]
  /\ UNCHANGED <<cacheOf, worker, task>> /\ Surroundings

(* An entry of a ready cache is lost or fails its check, while nobody is   *)
(* checking it.                                                            *)
Damage ==
  /\ shellFaults < MaxShellFaults /\ shellFaults' = shellFaults + 1
  /\ \A w \in Worker, h \in Ensures : task[<<w, h>>].step = "idle"
  /\ \E c \in CacheName :
       cacheOf[c] = "ready" /\ cacheOf' = [cacheOf EXCEPT ![c] = "partial"]
  /\ page' = [page EXCEPT !.proof = IF @ = "ready" THEN "none" ELSE @]
  /\ UNCHANGED <<served, deploys, worker, task, killed>>

(* The browser ends a worker; the one in charge is started again.          *)
KillWorker(w) ==
  /\ shellFaults < MaxShellFaults /\ shellFaults' = shellFaults + 1
  /\ Busy(w) /\ killed' = TRUE
  /\ task' = [u \in Worker \X Handler |-> IF u[1] = w THEN NoTask ELSE task[u]]
  /\ worker' = [worker EXCEPT ![w].state =
       IF @ = "installing" THEN "redundant" ELSE IF @ = "activating" THEN "active" ELSE @]
  /\ page' = [page EXCEPT !.proof = IF @ = "ready" THEN @ ELSE "none"]
  /\ UNCHANGED <<served, deploys, cacheOf>>

ShellNext ==
  \/ DeployBuild \/ LoadPage \/ PageTimesOut \/ Damage
  \/ \E w \in Worker :
       \/ Register(w) \/ InstallFails(w) \/ Installed(w)
       \/ Activate(w) \/ RetireNames(w) \/ Sweep(w)
       \/ ShellRequest(w) \/ PageAsks(w)
       \/ AssetRequest(w) \/ AssetMatched(w) \/ OpenRuntime(w) \/ RuntimeOpened(w)
       \/ AssetServed(w) \/ StoreAsset(w) \/ AssetStored(w)
       \/ KillWorker(w)
       \/ \E h \in Handler :
            \/ PopulateOpens(w, h) \/ FetchDocument(w, h) \/ FetchRest(w, h)
            \/ FindNames(w, h) \/ FindOpens(w, h) \/ FindChecks(w, h)
            \/ RepairVerified(w, h) \/ RepairEnds(w, h) \/ RepairFails(w, h)

ShellSpec == ShellInit /\ [][ShellNext]_shellVars

-----------------------------------------------------------------------------
Ready(b) == \E k \in {"shell", "repair"} : cacheOf[<<k, b>>] = "ready"

(* A page that was told that its trip works offline keeps a complete shell *)
(* of its own build while its worker is in charge, whatever installs,      *)
(* repairs, sweeps or ends meanwhile; only damage from outside voids it.   *)
(* ("No stale precheck can outlive another successful repair and then      *)
(* destructively replace it", sw.js:758-760.)                              *)
OfflineProofHolds == page.proof = "ready" => Ready(page.build)

(* Once a worker is active and nobody else has anything under way, no      *)
(* cache of another build is left or has come back ("Merely checking       *)
(* readiness must not recreate the retired shell cache", sw.js:699-701).   *)
RetiredCachesAreGone ==
  \A w \in Worker :
    worker[w].state = "active" /\ ~killed
      /\ (\A v \in Worker \ {w} : ~Busy(v) /\ worker[v].state # "installed")
    => \A c \in Visible : c[2] = BuildOf(w)
=============================================================================
