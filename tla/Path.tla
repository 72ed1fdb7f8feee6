--------------------------------- MODULE Path ---------------------------------
(***************************************************************************)
(* axonvex::core::Path: the default directories, which all threads share;  *)
(* a Path with its cached string; and the operations on the file system,   *)
(* each a sequence of system calls that others may come between.           *)
(***************************************************************************)
EXTENDS Naturals, Sequences, SequencesExt, Functions

CONSTANTS FileUsers,   \* threads, which are also the names of their probe files
          Places,      \* paths the threads work on
          MaxDepth,    \* of a path, when directories are moved into each other
          MaxParts     \* components of a Path

Kinds == {"APP", "CONFIG", "LOG", "CACHE", "DATA", "TEMP", "PLUGINS", "TEMPLATES", "BACKUP", "EXPORT"}
BeforeTemp == {"APP", "CONFIG", "LOG", "CACHE", "DATA"}
NoString == <<"?">>

VARIABLES initialized,    \* ensureInitialized() ran
          environment,    \* what the process was given: HOME, an entry of the user
          default_dirs_,
          fellBack,       \* an initialisation found no directory for temporary files
          got,            \* what a thread was told last: directory and file name
          path_, cached_string_, string_cache_valid_,
          fs,             \* the file system: "dir", or what is in a file
          filePc, source, target, overwrite,
          clobbered,      \* a copy that was not to overwrite did
          moved           \* a directory was moved

dirVars  == <<initialized, environment, default_dirs_, fellBack, got, path_, cached_string_,
              string_cache_valid_>>
fileVars == <<fs, filePc, source, target, overwrite, clobbered, moved>>

PathInit ==
  /\ initialized = FALSE /\ environment \in SUBSET {"HOME", "user"}
  /\ default_dirs_ = [k \in {} |-> <<>>] /\ fellBack = FALSE /\ got = <<<<>>, <<>>>>
  /\ path_ = <<>> /\ cached_string_ = NoString /\ string_cache_valid_ = FALSE
  /\ fs = [p \in {<<>>} |-> "dir"] /\ filePc = [t \in FileUsers |-> "idle"]
  /\ source = [t \in FileUsers |-> <<>>] /\ target = source /\ overwrite = [t \in FileUsers |-> FALSE]
  /\ clobbered = FALSE /\ moved = FALSE

-----------------------------------------------------------------------------
(* Default directories: every call runs under static_mutex_.               *)

getHomeDirectory ==
  IF "HOME" \in environment THEN <<"home">> ELSE IF "user" \in environment THEN <<"pw_dir">> ELSE <<"tmp">>

\* temp_directory_path() may throw: then what was entered before, and TEMP or not (the order of
\* evaluation is open in C++14), becomes a directory of the working directory.
initializeDefaultDirs ==
  LET home == getHomeDirectory
      data == home \o <<".local", "share", "axonvex">>
      dir(k) == CASE k = "APP" -> home \o <<".axonvex">>
                  [] k = "CONFIG" -> home \o <<".config", "axonvex">>
                  [] k = "CACHE" -> home \o <<".cache", "axonvex">>
                  [] k = "DATA" -> data
                  [] k = "LOG" -> Append(data, "logs")
                  [] k = "TEMP" -> <<"temp", "axonvex">>
                  [] OTHER -> Append(data, k)
  IN  \/ default_dirs_' = [k \in Kinds |-> dir(k)] /\ UNCHANGED fellBack
      \/ /\ \E entered \in {BeforeTemp, BeforeTemp \cup {"TEMP"}} :
              default_dirs_' = [k \in entered |-> <<"cwd", "axonvex">>]
         /\ fellBack' = TRUE

\* The first constructor of a Path; the others wait for it.
ensureInitialized ==
  /\ ~initialized /\ initialized' = TRUE /\ initializeDefaultDirs
  /\ UNCHANGED <<environment, got, path_, cached_string_, string_cache_valid_>>

resetDefaultDirs ==
  /\ initialized /\ initializeDefaultDirs
  /\ UNCHANGED <<initialized, environment, got, path_, cached_string_, string_cache_valid_>>

setDefaultDir(k) ==
  /\ initialized
  /\ default_dirs_' = [j \in DOMAIN default_dirs_ \cup {k} |->
                         IF j = k THEN <<"custom">> ELSE default_dirs_[j]]
  /\ UNCHANGED <<initialized, environment, fellBack, got, path_, cached_string_, string_cache_valid_>>

dirOf(k) == IF k \in DOMAIN default_dirs_ THEN default_dirs_[k] ELSE <<".">>

tell(dir, name) ==
  /\ initialized /\ got' = <<dir, name>>
  /\ UNCHANGED <<initialized, environment, default_dirs_, fellBack, path_, cached_string_, string_cache_valid_>>

getDefaultDir(k) == tell(dirOf(k), <<>>)

\* A name is a stem and an extension, which is added where it is not there.
createPath(k, subdir, stem, ext) ==
  tell(dirOf(k) \o subdir, IF stem[Len(stem)] = ext THEN stem ELSE Append(stem, ext))
createConfigPath(subdir, name) == createPath("CONFIG", subdir, name, ".json")
createLogPath(subdir, name)    == createPath("LOG", subdir, name, ".log")

\* A clock and a random number: nobody looks whether the file is there.
createTempPath(extension) == \E unique \in {"1", "2"} : tell(dirOf("TEMP"), <<unique, extension>>)

-----------------------------------------------------------------------------
(* A Path and the string it keeps.                                         *)

pathOnly == UNCHANGED <<initialized, environment, default_dirs_, fellBack, got>>

\* Fault: the string of the shorter path is kept.
appendKeepsCache(part) ==
  /\ initialized /\ Len(path_) < MaxParts /\ path_' = Append(path_, part)
  /\ UNCHANGED <<cached_string_, string_cache_valid_>> /\ pathOnly

\* operator/=
append(part) ==
  /\ initialized /\ Len(path_) < MaxParts /\ path_' = Append(path_, part)
  /\ string_cache_valid_' = FALSE /\ UNCHANGED cached_string_ /\ pathOnly

\* What is composed or taken apart is a new Path, without a string.
parent ==
  /\ initialized /\ path_ # <<>> /\ path_' = Front(path_)
  /\ string_cache_valid_' = FALSE /\ cached_string_' = NoString /\ pathOnly

toString ==
  /\ initialized /\ ~string_cache_valid_
  /\ cached_string_' = path_ /\ string_cache_valid_' = TRUE
  /\ UNCHANGED path_ /\ pathOnly

DirsNext ==
  \/ ensureInitialized \/ resetDefaultDirs \/ parent \/ toString
  \/ \E k \in {"DATA", "PLUGINS"} : setDefaultDir(k) \/ getDefaultDir(k)
  \/ \E subdir \in {<<>>, <<"sub">>}, name \in {<<"a">>, <<"a", ".json">>} :
       createConfigPath(subdir, name) \/ createLogPath(subdir, name)
  \/ createTempPath(".tmp")
  \/ append("a")

-----------------------------------------------------------------------------
(* Files.                                                                  *)

exists(p) == p \in DOMAIN fs
isDirectory(p) == exists(p) /\ fs[p] = "dir"
isFile(p) == exists(p) /\ fs[p] # "dir"
Below(p) == {q \in DOMAIN fs : IsStrictPrefix(p, q)}
Up(p) == {SubSeq(p, 1, n) : n \in 1..Len(p)}
Without(gone) == Restrict(fs, DOMAIN fs \ gone)
Holding(p, what) == [q \in DOMAIN fs \cup {p} |-> IF q = p THEN what ELSE fs[q]]

\* create_directories(): nothing where a file is in the way.
WithDirectories(p) ==
  IF \E q \in Up(p) : isFile(q) THEN fs
  ELSE [q \in DOMAIN fs \cup Up(p) |-> IF q \in Up(p) THEN "dir" ELSE fs[q]]

fGoto(t, here, there) == filePc[t] = here /\ filePc' = [filePc EXCEPT ![t] = there]
keepArgs == UNCHANGED <<source, target, overwrite, clobbered>>
dropArgs(t) == /\ source' = [source EXCEPT ![t] = <<>>] /\ target' = [target EXCEPT ![t] = <<>>]
               /\ overwrite' = [overwrite EXCEPT ![t] = FALSE]

createDirectory(p) ==
  /\ \/ fs' = WithDirectories(p)
     \/ ~exists(p) /\ isDirectory(Front(p)) /\ fs' = Holding(p, "dir")
  /\ UNCHANGED <<filePc, moved>> /\ keepArgs

\* What a user of the library writes.
writeFile(p) ==
  /\ ~isDirectory(p) /\ isDirectory(Front(p)) /\ fs' = Holding(p, "text")
  /\ UNCHANGED <<filePc, moved>> /\ keepArgs

remove(p) ==
  /\ exists(p) /\ Below(p) = {} /\ fs' = Without({p})
  /\ UNCHANGED <<filePc, moved>> /\ keepArgs

removeAll(p) ==
  /\ exists(p) /\ fs' = Without({p} \cup Below(p))
  /\ UNCHANGED <<filePc, moved>> /\ keepArgs

\* copyTo() returns where it may not overwrite; both make the directories of the destination.
copyTo(t, p, d, over) ==
  /\ fGoto(t, "idle", "copyParents") /\ (over \/ ~exists(d))
  /\ source' = [source EXCEPT ![t] = p] /\ target' = [target EXCEPT ![t] = d]
  /\ overwrite' = [overwrite EXCEPT ![t] = over] /\ UNCHANGED <<fs, clobbered, moved>>

moveTo(t, p, d) ==
  /\ fGoto(t, "idle", "moveParents")
  /\ source' = [source EXCEPT ![t] = p] /\ target' = [target EXCEPT ![t] = d]
  /\ UNCHANGED <<overwrite, fs, clobbered, moved>>

makeParents(t) ==
  /\ fGoto(t, "copyParents", "copy") \/ fGoto(t, "moveParents", "move")
  /\ fs' = WithDirectories(Front(target[t])) /\ UNCHANGED moved /\ keepArgs

Copied(t) ==
  /\ isFile(source[t]) /\ source[t] # target[t] /\ ~isDirectory(target[t]) /\ isDirectory(Front(target[t]))
  /\ fs' = Holding(target[t], fs[source[t]])
  /\ clobbered' = (clobbered \/ (exists(target[t]) /\ ~overwrite[t]))

\* Fault: copyTo() has looked already whether the destination is there.
copyFileOver(t) ==
  /\ fGoto(t, "copy", "idle") /\ (Copied(t) \/ UNCHANGED <<fs, clobbered>>)
  /\ dropArgs(t) /\ UNCHANGED moved

\* copy_file(), which looks again unless it is to overwrite.
copyFile(t) ==
  /\ fGoto(t, "copy", "idle")
  /\ IF overwrite[t] \/ ~exists(target[t]) THEN Copied(t) \/ UNCHANGED <<fs, clobbered>>
     ELSE UNCHANGED <<fs, clobbered>>
  /\ dropArgs(t) /\ UNCHANGED moved

\* rename(): a file over a file, a directory over an empty one.
Renamed(p, d) ==
  /\ exists(p) /\ ~IsPrefix(p, d) /\ isDirectory(Front(d))
  /\ IF isFile(p) THEN ~isDirectory(d) ELSE ~isFile(d) /\ Below(d) = {}
  /\ \A q \in Below(p) : Len(q) - Len(p) + Len(d) <= MaxDepth
  /\ LET tree == {p} \cup Below(p)
         there == [q \in tree |-> d \o SubSeq(q, Len(p) + 1, Len(q))]
     IN  fs' = [q \in (DOMAIN fs \ tree) \cup Range(there) |->
                  IF q \in Range(there) THEN fs[CHOOSE r \in tree : there[r] = q] ELSE fs[q]]
  /\ moved' = (moved \/ isDirectory(p))

rename(t) ==
  /\ fGoto(t, "move", "idle") /\ (Renamed(source[t], target[t]) \/ UNCHANGED <<fs, moved>>)
  /\ dropArgs(t) /\ UNCHANGED clobbered

\* isWritable(): what is not there is asked of its parent.  What it reads first is read at once.
isWritable(t, p) ==
  /\ exists(p) \/ isDirectory(Front(p))
  /\ fGoto(t, "idle", IF isFile(p) THEN "openFile" ELSE "openProbe")
  /\ target' = [target EXCEPT ![t] = IF exists(p) THEN p ELSE Front(p)]
  /\ UNCHANGED <<source, overwrite, fs, clobbered, moved>>

\* A file that went away since is made anew by the attempt to append to it.
openFile(t) ==
  /\ fGoto(t, "openFile", "idle")
  /\ fs' = IF ~exists(target[t]) /\ isDirectory(Front(target[t])) THEN Holding(target[t], "empty") ELSE fs
  /\ dropArgs(t) /\ UNCHANGED <<clobbered, moved>>

openProbe(t) ==
  /\ IF isDirectory(target[t])
     THEN fGoto(t, "openProbe", "removeProbe") /\ fs' = Holding(Append(target[t], t), "empty") /\ keepArgs
     ELSE fGoto(t, "openProbe", "idle") /\ UNCHANGED <<fs, clobbered>> /\ dropArgs(t)
  /\ UNCHANGED moved

removeProbe(t) ==
  /\ fGoto(t, "removeProbe", "idle") /\ fs' = Without({Append(target[t], t)})
  /\ dropArgs(t) /\ UNCHANGED <<clobbered, moved>>

FilesNext ==
  \/ \E p \in Places : createDirectory(p) \/ remove(p) \/ removeAll(p) \/ writeFile(p)
  \/ \E t \in FileUsers :
       \/ makeParents(t) \/ copyFile(t) \/ rename(t)
       \/ openFile(t) \/ openProbe(t) \/ removeProbe(t)
       \/ \E p \in Places : \/ isWritable(t, p)
                            \/ \E d \in Places : \/ moveTo(t, p, d)
                                                 \/ \E over \in BOOLEAN : copyTo(t, p, d, over)

-----------------------------------------------------------------------------

\* The string a Path keeps is the one of its path; and a directory is the working directory only
\* where no directory for temporary files was found.
DirsSound ==
  /\ string_cache_valid_ => cached_string_ = path_
  /\ got[1] = <<".">> => fellBack

\* copyTo() overwrites nothing it was not allowed to, whoever creates the destination when; and
\* isWritable() leaves nothing behind in a directory that stays where it is.
FilesSound ==
  /\ ~clobbered
  /\ \A t \in FileUsers : filePc[t] # "removeProbe" /\ ~moved =>
       \A p \in DOMAIN fs : p # <<>> => Last(p) # t
=============================================================================
