----------------------------- MODULE FolderMenu -----------------------------
(***************************************************************************)
(* From a URL to a file and from a directory to the links of its menu:     *)
(* getFilePath and makeFolderMenu.  The path of a file is the sequence of  *)
(* the names that lead to it from the root.  Virtual directories are left  *)
(* out: none is configured, and getFilePath does not look for them.        *)
(***************************************************************************)
EXTENDS UrlCoding

CONSTANTS
  Kind,         \* of each path there is: file, menu, or index (with one)
  IndexFile,    \* the index file of a directory
  RootName,     \* the name of the directory that is served
  Wanted        \* URLs that are asked for, and whose menus' links are

Paths == DOMAIN Kind

(* A URL is a sequence of bytes, and so is a name; no name has a slash.    *)
ASSUME WantedAssumption == Wanted \subseteq Seq(0..255) \ {<<>>}
ASSUME NameAssumption ==
  \A path \in Paths : path # <<>> =>
    Last(path) \in Seq(0..255) \ {<<>>} /\ ~Contains(Last(path), Slash)

NoFile == [names |-> <<>>, slash |-> FALSE]

PathCat(dir, name) == IF Last(dir) = Slash THEN dir \o name ELSE dir \o <<Slash>> \o name

(***************************************************************************)
(* The file a URL is for.                                                  *)
(***************************************************************************)
(* One name of a path: a step down, or up, and nowhere further once it has *)
(* led above the root.                                                     *)
Enter(dir, name) ==
  CASE dir.top \/ name \in {<<>>, <<Dot>>} -> dir
    [] ~dir.top /\ name = <<Dot, Dot>>     ->
         IF dir.names = <<>> THEN [dir EXCEPT !.top = TRUE] ELSE [dir EXCEPT !.names = Front(@)]
    [] OTHER                               -> [dir EXCEPT !.names = Append(@, name)]

(* File::absolutePath: the names from the root on, and whether the path is *)
(* written with a slash at its end.                                        *)
AbsolutePath(path) ==
  LET text == Append(path, Slash)
      walk[i \in 0..Len(text)] ==
        IF i = 0 THEN [names |-> <<>>, top |-> FALSE, name |-> <<>>]
        ELSE IF text[i] = Slash THEN [Enter(walk[i-1], walk[i-1].name) EXCEPT !.name = <<>>]
        ELSE [walk[i-1] EXCEPT !.name = Append(@, text[i])]
      end == walk[Len(text)]
  IN [names |-> end.names, slash |-> end.top \/ Last(path) = Slash]

GetFilePath(url) == AbsolutePath(ReplaceAll(url, Backslash, Slash))

(* A file is not found under a path with a slash at its end. *)
KindOf(file) ==
  IF file.names \in Paths /\ ~(file.slash /\ Kind[file.names] = "file")
  THEN Kind[file.names] ELSE "missing"

FileExist(file) == KindOf(file) # "missing"

(***************************************************************************)
(* makeFolderMenu: the links of the menu that is given for a URL.          *)
(***************************************************************************)
(* Hidden files are not listed. *)
Listed(dir) == {path \in Paths \ {<<>>} : Front(path) = dir /\ Head(Last(path)) # Dot}

LastDirName(file) ==
  IF file.slash THEN <<>> ELSE IF file.names = <<>> THEN RootName ELSE Last(file.names)

SlashIfDir(path) == IF Kind[path] = "file" THEN <<>> ELSE <<Slash>>

(* The entry's name is coded; the directory's own, which is put in front   *)
(* when the URL does not end with a slash, is not.                         *)
Href(dir, path) ==
  (IF LastDirName(dir) = <<>> THEN <<>> ELSE LastDirName(dir) \o <<Slash>>)
    \o UrlEncode(Last(path)) \o SlashIfDir(path)

(* The client takes it from the directory of the URL it asked with.        *)
Link(url, path) == Escaped(Directory(url)) \o Href(GetFilePath(url), path)

(* What it is meant for. *)
Entry(url, path) == PathCat(url, Last(path)) \o SlashIfDir(path)

(* What clients ask for: a URL they know, or a link of the menu they were  *)
(* given for one.                                                          *)
Typed == {[link |-> Escaped(url), menu |-> <<>>, meant |-> url] : url \in Wanted}

Menus == {url \in Wanted : KindOf(GetFilePath(url)) = "menu"}

Links == {l \in Menus \X Paths : l[2] \in Listed(GetFilePath(l[1]).names)}

Clicked == {[link |-> Link(l[1], l[2]), menu |-> l[1], meant |-> Entry(l[1], l[2])] : l \in Links}

(* What is put into a menu's links in front of the names is the end of its *)
(* URL, or need not be: the URL ends with a slash, or with the directory's *)
(* name, and that is the same when it is coded.                            *)
LinksWritten(url) ==
  \/ url = <<>> \/ Last(url) = Slash
  \/ LastName(url) = LastDirName(GetFilePath(url)) /\ UrlEncode(LastName(url)) = LastName(url)
=============================================================================
