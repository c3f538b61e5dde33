--------------------------- MODULE SlimProviders ---------------------------
(***************************************************************************)
(* The providers of a SlimRuntime: threads that need one call              *)
(* _ensure_loaded, the first of them loads every binding under the lock,   *)
(* downloading packages that are not on the disk yet.                      *)
(*                                                                         *)
(* A package is a directory that is absent, partly there or whole.  The    *)
(* program may crash and start again, on the same disk.                    *)
(***************************************************************************)
EXTENDS Integers, Sequences, FiniteSets, SequencesExt

CONSTANTS
  Threads,
  Bindings,     \* the providers, in the order of the configuration
  MaxLookups,   \* bound: lookups of a thread
  MaxCrashes    \* bound: crashes of the program

ASSUME ProvidersAssumption ==
  Bindings \in Seq(Range(Bindings)) /\ Bindings # <<>> /\ "none" \notin Threads

VARIABLES
  where,     \* thread -> idle, waiting, loading, download, extract, read, lookup
  wanted,    \* thread -> the provider it needs
  lookups,   \* thread -> lookups it has begun
  answer,    \* thread -> none, found, unknown or error: its last lookup
  lock,      \* the thread that holds _lock, or None
  next,      \* index of the binding being loaded
  loaded,    \* _providers_by_name: provider -> whole or partial, as it was read
  disk,      \* provider -> absent, partial or whole
  downloads, \* history: provider -> downloads that were unpacked
  raised,    \* history: a load has raised in this life of the program
  crashes

providerVars ==
  <<where, wanted, lookups, answer, lock, next, loaded, disk, downloads, raised, crashes>>

None == "none"
Providers == Range(Bindings)
Current == Bindings[next]

ProvidersInit ==
  /\ where = [t \in Threads |-> "idle"] /\ wanted \in [Threads -> Providers]
  /\ lookups = [t \in Threads |-> 0] /\ answer = [t \in Threads |-> None]
  /\ lock = None /\ next = 1 /\ loaded = <<>> /\ raised = FALSE /\ crashes = 0
  /\ disk = [p \in Providers |-> "absent"] /\ downloads = [p \in Providers |-> 0]

Goes(t, step) == where' = [where EXCEPT ![t] = step]

\* _get_loaded_provider: the first test of _ensure_loaded, without the lock.
FirstTest(t) ==
  /\ where[t] = "idle" /\ lookups[t] < MaxLookups
  /\ lookups' = [lookups EXCEPT ![t] = @ + 1]
  /\ Goes(t, IF loaded # <<>> THEN "lookup" ELSE "waiting")
  /\ UNCHANGED <<wanted, answer, lock, next, loaded, disk, downloads, raised, crashes>>

\* The lock, and the second test.
LockAndTest(t) ==
  /\ where[t] = "waiting" /\ lock = None
  /\ IF loaded # <<>> THEN Goes(t, "lookup") /\ UNCHANGED <<lock, next>>
                      ELSE Goes(t, "loading") /\ lock' = t /\ next' = 1
  /\ UNCHANGED <<wanted, lookups, answer, loaded, disk, downloads, raised, crashes>>

\* A load that raises leaves the lock; what was loaded so far stays.
LoadRaises(t) ==
  /\ Goes(t, "idle") /\ answer' = [answer EXCEPT ![t] = "error"] /\ lock' = None /\ raised' = TRUE

\* _ensure_plugin_root: a directory that is there is taken as it is.
FindRoot(t) ==
  /\ where[t] = "loading"
  /\ Goes(t, IF disk[Current] = "absent" THEN "download" ELSE "read")
  /\ UNCHANGED <<wanted, lookups, answer, lock, next, loaded, disk, downloads, raised, crashes>>

\* The package is fetched, which may fail, and its directory made.
Download(t) ==
  /\ where[t] = "download"
  /\ \/ /\ Goes(t, "extract") /\ disk' = [disk EXCEPT ![Current] = "partial"]
        /\ UNCHANGED <<answer, lock, raised>>
     \/ LoadRaises(t) /\ UNCHANGED disk
  /\ UNCHANGED <<wanted, lookups, next, loaded, downloads, crashes>>

\* A slip: an archive that cannot be unpacked leaves its directory behind.
ExtractKeeping(t) ==
  /\ where[t] = "extract"
  /\ \/ /\ Goes(t, "read") /\ disk' = [disk EXCEPT ![Current] = "whole"]
        /\ downloads' = [downloads EXCEPT ![Current] = @ + 1]
        /\ UNCHANGED <<answer, lock, raised>>
     \/ LoadRaises(t) /\ UNCHANGED <<disk, downloads>>
  /\ UNCHANGED <<wanted, lookups, next, loaded, crashes>>

\* It is unpacked; if that fails the directory is removed.
Extract(t) ==
  /\ where[t] = "extract"
  /\ \/ /\ Goes(t, "read") /\ disk' = [disk EXCEPT ![Current] = "whole"]
        /\ downloads' = [downloads EXCEPT ![Current] = @ + 1]
        /\ UNCHANGED <<answer, lock, raised>>
     \/ LoadRaises(t) /\ disk' = [disk EXCEPT ![Current] = "absent"] /\ UNCHANGED downloads
  /\ UNCHANGED <<wanted, lookups, next, loaded, crashes>>

\* The declarations are read and converted, models found by a pattern; then the
\* provider is there for every thread.
Read(t) ==
  /\ where[t] = "read"
  /\ \/ /\ loaded' = [p \in DOMAIN loaded \cup {Current} |->
                        IF p = Current THEN disk[p] ELSE loaded[p]]
        /\ next' = next + 1
        /\ IF next = Len(Bindings) THEN Goes(t, "lookup") /\ lock' = None
                                   ELSE Goes(t, "loading") /\ UNCHANGED lock
        /\ UNCHANGED <<answer, raised>>
     \/ LoadRaises(t) /\ UNCHANGED <<loaded, next>>
  /\ UNCHANGED <<wanted, lookups, disk, downloads, crashes>>

\* _get_loaded_provider
Lookup(t) ==
  /\ where[t] = "lookup" /\ Goes(t, "idle")
  /\ answer' = [answer EXCEPT ![t] = IF wanted[t] \in DOMAIN loaded THEN "found"
                                     ELSE IF lock # None THEN "early" ELSE "unknown"]
  /\ UNCHANGED <<wanted, lookups, lock, next, loaded, disk, downloads, raised, crashes>>

Crash ==
  /\ crashes < MaxCrashes /\ lock # None
  /\ crashes' = crashes + 1 /\ raised' = FALSE
  /\ where' = [t \in Threads |-> "idle"] /\ answer' = [t \in Threads |-> None]
  /\ lock' = None /\ next' = 1 /\ loaded' = <<>>
  /\ UNCHANGED <<wanted, lookups, disk, downloads>>

ProvidersStep ==
  \/ Crash
  \/ \E t \in Threads :
       FirstTest(t) \/ LockAndTest(t) \/ FindRoot(t) \/ Download(t) \/ Extract(t) \/ Read(t) \/ Lookup(t)

-----------------------------------------------------------------------------
\* A configured provider is reported as unknown only while another thread is
\* still loading (the test without the lock sees the first one) or after a
\* load that raised half-way.
KnownUnlessLoading == \A t \in Threads : answer[t] = "unknown" => raised

\* A provider comes from a whole package, unless the program once crashed while
\* one was being unpacked; and a package is unpacked once.
FromWholePackages ==
  /\ crashes = 0 => \A p \in DOMAIN loaded : loaded[p] = "whole"
  /\ \A p \in Providers : downloads[p] <= 1

\* One thread loads at a time.
ProvidersOK ==
  /\ \A t \in Threads : where[t] \in {"loading", "download", "extract", "read"} <=> lock = t
  /\ KnownUnlessLoading /\ FromWholePackages
=============================================================================
