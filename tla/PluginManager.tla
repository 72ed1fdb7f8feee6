---------------------------- MODULE PluginManager ----------------------------
(***************************************************************************)
(* axonvex::plugins::PluginManager with makePosixLoader(): what happens to *)
(* every library that was opened and every instance it made, over all the  *)
(* ways in which loading fails.  The libraries are external: a file has    *)
(* any name and any outcome.                                               *)
(***************************************************************************)
EXTENDS Naturals, Sequences, Functions

CONSTANTS Managers, Names, MaxLoads, MaxScan   \* bounds on the loads and on a directory

VARIABLES plugins,     \* plugins_ of each manager: name to library
          lastError,   \* lastError_ is not empty
          libraries,   \* what was done with each library opened so far, in order
          scan         \* per manager, the directory scan under way

pluginVars == <<plugins, lastError, libraries, scan>>

NoScan == [left |-> 0, failed |-> FALSE]

PluginInit ==
  /\ plugins = [g \in Managers |-> << >>]
  /\ lastError = [g \in Managers |-> FALSE]
  /\ libraries = << >>
  /\ scan = [g \in Managers |-> NoScan]

Idle(g)   == scan[g] = NoScan
Closed    == <<"shutdown", "destroy", "dlclose">>

\* makePosixLoader(): every failure closes the library again.
LoaderFailures ==
  { << >>,                                          \* dlopen() failed
    <<"dlopen", "dlclose">> }                       \* symbols, ABI version, create()

\* initialize() failed or threw: no shutdown().
FailedInitialize == {<<"dlopen", "create", "initialize failed", "destroy", "dlclose">>}

Loaded == <<"dlopen", "create", "initialize">>

\* loadPlugin() of one file: fails, or adds an entry under the name that the instance
\* reports, or finds that name taken.
load(g, ok) ==
  /\ Len(libraries) < MaxLoads
  /\ \/ ~ok /\ \E f \in LoaderFailures \cup FailedInitialize : libraries' = Append(libraries, f)
        /\ UNCHANGED plugins
     \/ \E n \in Names :
          IF n \in DOMAIN plugins[g]
          THEN ~ok /\ libraries' = Append(libraries, Loaded \o Closed) /\ UNCHANGED plugins
          ELSE /\ ok /\ libraries' = Append(libraries, Loaded)
               /\ plugins' = [plugins EXCEPT ![g] =
                     [x \in {n} \cup DOMAIN @ |-> IF x = n THEN Len(libraries') ELSE @[x]]]

loadPlugin(g) ==
  \E ok \in BOOLEAN :
    /\ Idle(g) /\ load(g, ok)
    /\ lastError' = [lastError EXCEPT ![g] = ~ok]
    /\ UNCHANGED scan

\* loadPluginsFromDirectory(): one file after the other; each clears the error of the last,
\* the summary of all failures is written at the end.
beginDirectory(g) ==
  /\ Idle(g) /\ \E k \in 1..MaxScan : scan' = [scan EXCEPT ![g] = [left |-> k, failed |-> FALSE]]
  /\ lastError' = [lastError EXCEPT ![g] = FALSE]
  /\ UNCHANGED <<plugins, libraries>>

\* Fault: the summary is that of the last file.
summaryOfLast(g, ok) == ~ok

summary(g, ok) == scan[g].failed \/ ~ok

loadFromDirectory(g) ==
  \E ok \in BOOLEAN :
    /\ scan[g].left > 0 /\ load(g, ok)
    /\ scan' = [scan EXCEPT ![g] = IF @.left = 1 THEN NoScan
                                   ELSE [left |-> @.left - 1, failed |-> @.failed \/ ~ok]]
    /\ lastError' = [lastError EXCEPT ![g] = IF scan[g].left = 1 THEN summary(g, ok) ELSE ~ok]

closeAll(s) == [i \in DOMAIN libraries |-> IF i \in s THEN libraries[i] \o Closed ELSE libraries[i]]

unloadPlugin(g) ==
  /\ Idle(g)
  /\ \E n \in DOMAIN plugins[g] :
       /\ libraries' = closeAll({plugins[g][n]})
       /\ plugins' = [plugins EXCEPT ![g] = Restrict(@, DOMAIN @ \ {n})]
  /\ UNCHANGED <<lastError, scan>>

\* unloadAllPlugins(), the destructor.
unloadAllPlugins(g) ==
  /\ Idle(g) /\ libraries' = closeAll(Range(plugins[g]))
  /\ plugins' = [plugins EXCEPT ![g] = << >>]
  /\ UNCHANGED <<lastError, scan>>

\* Fault: the defaulted move assignment.
moveAssignDefault(g, o) ==
  /\ g # o /\ Idle(g) /\ Idle(o) /\ UNCHANGED libraries
  /\ plugins' = [plugins EXCEPT ![g] = plugins[o], ![o] = << >>]
  /\ lastError' = [lastError EXCEPT ![g] = lastError[o], ![o] = FALSE]
  /\ UNCHANGED scan

moveAssign(g, o) ==
  /\ g # o /\ Idle(g) /\ Idle(o) /\ libraries' = closeAll(Range(plugins[g]))
  /\ plugins' = [plugins EXCEPT ![g] = plugins[o], ![o] = << >>]
  /\ lastError' = [lastError EXCEPT ![g] = lastError[o], ![o] = FALSE]
  /\ UNCHANGED scan

PluginNext ==
  \E g \in Managers :
    \/ loadPlugin(g) \/ beginDirectory(g) \/ loadFromDirectory(g)
    \/ unloadPlugin(g) \/ unloadAllPlugins(g) \/ \E o \in Managers : moveAssign(g, o)

-----------------------------------------------------------------------------

Held == UNION {Range(plugins[g]) : g \in Managers}

\* Whatever failed on the way, a library is open exactly while one entry of one manager holds
\* it, and any other was closed after its instance was destroyed, and that after shutdown() if
\* and only if it was initialized.
LibrariesOwnedOnce ==
  /\ \A i \in DOMAIN libraries :
       libraries[i] \in IF i \in Held THEN {Loaded}
                        ELSE {Loaded \o Closed} \cup LoaderFailures
                               \cup {<<"dlopen", "create", "initialize failed",
                                       "destroy", "dlclose">>}
  /\ \A g, o \in Managers : \A n \in DOMAIN plugins[g], k \in DOMAIN plugins[o] :
       plugins[g][n] = plugins[o][k] => g = o /\ n = k

\* lastError(): a later file that loads does not erase an earlier failure of the same scan.
ErrorsAreKept ==
  [][\A g \in Managers : scan[g].failed /\ Idle(g)' => lastError'[g]]_pluginVars
=============================================================================
