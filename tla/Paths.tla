-------------------------------- MODULE Paths --------------------------------
(***************************************************************************)
(* The path functions of ESDUtilitiesWindows.cpp, and the search for the   *)
(* plugin's folder in GetPluginPath, which they serve: the folder that     *)
(* holds the translations, an ancestor of the executable whose name ends   *)
(* in .sdPlugin.                                                           *)
(*                                                                         *)
(* A path is a sequence of characters, of which the functions tell apart   *)
(* the two delimiters, the colon and the dot; "sdPlugin" is taken for one  *)
(* character.                                                              *)
(***************************************************************************)
EXTENDS Integers, Sequences, SequencesExt

CONSTANTS
  Letters,      \* the characters that the functions do not tell apart
  Roots,        \* drives and network shares
  Names,        \* names of files and folders
  MaxDepth      \* bound: folders above the executable

Backslash == "\\"
Character == Letters \cup {Backslash, "/", ":", ".", "sdPlugin"}

(* What Windows allows: a name has no delimiter and no colon; a path begins *)
(* with a drive, X:\, or with a share, \\server\share.                     *)
IsName(name) ==
  /\ name \in Seq(Character) /\ name # <<>>
  /\ \A i \in 1 .. Len(name) : name[i] \notin {Backslash, "/", ":"}
IsDrive(root) ==
  /\ root \in Seq(Character) /\ Len(root) = 3
  /\ IsName(<<root[1]>>) /\ root[2] = ":" /\ root[3] = Backslash
IsShare(root) ==
  /\ root \in Seq(Character) /\ Len(root) > 4 /\ root[1] = Backslash /\ root[2] = Backslash
  /\ \E i \in 4 .. (Len(root) - 1) :
       /\ root[i] = Backslash
       /\ IsName(SubSeq(root, 3, i - 1)) /\ IsName(SubSeq(root, i + 1, Len(root)))

ASSUME PathsAssumption ==
  /\ MaxDepth \in Nat
  /\ \A root \in Roots : IsDrive(root) \/ IsShare(root)
  /\ \A name \in Names : IsName(name)

VARIABLES
  executable,   \* what GetModuleFileName returns, as its root and names
  pathString,   \* where the search is
  sPluginPath,  \* what it has found
  searching     \* is it still going on?

vars == <<executable, pathString, sPluginPath, searching>>

\* Positions: 0 stands for npos.
FindLast(path, c) == SelectLastInSeq(path, LAMBDA x : x = c)
FindFirst(path, c) == SelectInSeq(path, LAMBDA x : x = c)

\* The functions are never asked for an empty prefix or suffix.
HasPrefix(path, prefix) == IsPrefix(prefix, path)
HasSuffix(path, suffix) == IsSuffix(suffix, path)

\* A path without backslashes may use slashes.
Delimiter(path) == IF Contains(path, Backslash) THEN Backslash ELSE "/"

IsNetworkDriveRoot(path) ==
  LET d == Delimiter(path)
      rest == SubSeq(path, 3, Len(path))
  IN HasPrefix(path, <<d, d>>) /\ FindFirst(rest, d) = FindLast(rest, d)

\* Trailing delimiters are removed, up to the first character of the path.
Trimmed(path, d) ==
  LET last == SelectLastInSeq(path, LAMBDA x : x # d)
  IN IF last = 0 /\ path # <<>> THEN <<d>> ELSE SubSeq(path, 1, last)

GetFileName(path) ==
  LET d == Delimiter(path)
      trimmed == Trimmed(path, d)
  IN IF ~Contains(path, d) \/ HasSuffix(path, <<":", Backslash>>) THEN path
     ELSE IF trimmed = <<d>> THEN <<d>>
     ELSE SubSeq(trimmed, FindLast(trimmed, d) + 1, Len(trimmed))

\* Fault: the extension begins at the first dot.
LongExtension(path) ==
  LET name == GetFileName(path)
      dot == FindFirst(name, ".")
  IN IF dot \in {0, Len(name)} THEN <<>> ELSE SubSeq(name, dot, Len(name))

GetExtension(path) ==
  LET name == GetFileName(path)
      dot == FindLast(name, ".")
  IN IF dot \in {0, Len(name)} THEN <<>> ELSE SubSeq(name, dot, Len(name))

IsDelimiter(c) == c \in {Backslash, "/"}

\* Fault: the component is taken to start with a delimiter if the path ends with
\* one.
AddToRoot(path, component) ==
  LET joined == IF IsDelimiter(Last(path)) THEN path \o Tail(component)
                ELSE path \o <<Backslash>> \o component
  IN IF path = <<>> THEN component ELSE ReplaceAll(joined, "/", Backslash)

AddPathComponent(path, component) ==
  LET ends == IsDelimiter(Last(path))
      starts == component # <<>> /\ IsDelimiter(Head(component))
      joined == IF ends /\ starts THEN path \o Tail(component)
                ELSE IF ends \/ starts THEN path \o component
                ELSE path \o <<Backslash>> \o component
  IN IF path = <<>> THEN component ELSE ReplaceAll(joined, "/", Backslash)

\* Fault: the folder above C:\name is not a root.
FolderWithoutRoot(path) ==
  LET d == Delimiter(path)
      trimmed == Trimmed(path, d)
      found == SubSeq(path, 1, FindLast(trimmed, d) - 1)
  IN IF HasSuffix(path, <<":", d>>) \/ IsNetworkDriveRoot(path) THEN path
     ELSE IF ~Contains(trimmed, d)
       THEN IF HasSuffix(trimmed, <<":">>) THEN trimmed \o <<d>> ELSE <<>>
     ELSE Trimmed(found, d)

\* The folder above a path; that of a root is the root itself.
GetFolderPath(path) ==
  LET d == Delimiter(path)
      trimmed == Trimmed(path, d)
      found == SubSeq(path, 1, FindLast(trimmed, d) - 1)
      folder == Trimmed(found, d)
  IN IF HasSuffix(path, <<":", d>>) \/ IsNetworkDriveRoot(path) THEN path
     ELSE IF ~Contains(trimmed, d)
       THEN IF HasSuffix(trimmed, <<":">>) THEN trimmed \o <<d>> ELSE <<>>
     ELSE IF HasSuffix(found, <<":", Backslash>>) THEN found
     ELSE IF HasSuffix(found, <<":">>) THEN found \o <<Backslash>>
     ELSE IF folder = <<>> /\ d = "/" THEN <<"/">>
     ELSE folder

-----------------------------------------------------------------------------
(* The search.                                                             *)

\* The path of what has this name in a folder.
Below(path, name) ==
  path \o (IF HasSuffix(path, <<Backslash>>) THEN <<>> ELSE <<Backslash>>) \o name

\* The paths from a root down, by the names on the way.
PathsOf(root, names) ==
  LET path[k \in 0 .. Len(names)] == IF k = 0 THEN root ELSE Below(path[k - 1], names[k])
  IN path

Executables == [root : Roots, names : BoundedSeq(Names, MaxDepth + 1) \ {<<>>}]

Init ==
  /\ executable \in Executables
  /\ pathString = PathsOf(executable.root, executable.names)[Len(executable.names)]
  /\ sPluginPath = <<>>
  /\ searching = TRUE

Suffix == <<".", "sdPlugin">>
AtTop == pathString \in {<<>>, <<"/">>} \/ HasSuffix(pathString, <<":", Backslash>>)

Found ==
  /\ searching /\ ~AtTop
  /\ GetExtension(pathString) = Suffix
  /\ sPluginPath' = pathString
  /\ searching' = FALSE
  /\ UNCHANGED <<executable, pathString>>

GoUp ==
  /\ searching /\ ~AtTop
  /\ GetExtension(pathString) # Suffix
  /\ GetFolderPath(pathString) # pathString
  /\ pathString' = GetFolderPath(pathString)
  /\ UNCHANGED <<executable, sPluginPath, searching>>

\* A root is its own folder: there is nowhere left to go.
GiveUp ==
  /\ searching
  /\ AtTop \/ (GetExtension(pathString) # Suffix /\ GetFolderPath(pathString) = pathString)
  /\ searching' = FALSE
  /\ UNCHANGED <<executable, pathString, sPluginPath>>

Done == ~searching /\ UNCHANGED vars

Next == Found \/ GoUp \/ GiveUp \/ Done

Spec == Init /\ [][Next]_vars

-----------------------------------------------------------------------------
(* Properties.                                                             *)

\* The search finds the nearest folder whose path ends in .sdPlugin, wherever
\* else a name has dots, and only if there is one (lines 247-266). It may be a
\* share.
PluginPathIsNearest ==
  LET paths == PathsOf(executable.root, executable.names)
      named == {k \in 0 .. Len(executable.names) : IsSuffix(Suffix, paths[k])}
      nearest == CHOOSE k \in named : \A j \in named : j <= k
  IN ~searching => sPluginPath = IF named = {} THEN <<>> ELSE paths[nearest]

\* Each step goes to a folder that contains the path, so that the search comes
\* to an end at a drive or a share (lines 258-262).
GoesUp == [][pathString' = pathString \/ IsStrictPrefix(pathString', pathString)]_vars

\* A file added to a folder is in that folder and has its name, whether or not
\* the folder is a root (lines 137-163, against 62-121 and 165-231).
FileIsInItsFolder ==
  \A name \in Names :
    LET file == AddPathComponent(pathString, name)
    IN GetFolderPath(file) = pathString /\ GetFileName(file) = name
=============================================================================
