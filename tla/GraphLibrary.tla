----------------------------- MODULE GraphLibrary -----------------------------
(***************************************************************************)
(* FlowManager::load_library for GraphML files, in the runs that take      *)
(* --graphml-color-map-path.  The labels of vertices and edges are mapped  *)
(* to colors as the files are read, in the order in which the directory    *)
(* lists them.  A run that is given a color map file starts from the map   *)
(* in it and saves the map it ends with in a new file, from which a later  *)
(* run can start; a run that is given none starts from an empty map and    *)
(* saves nothing.  A file that is being written may be left incomplete.    *)
(***************************************************************************)
EXTENDS GraphDocuments

CONSTANTS Directories,  \* directory -> file -> document
          Sessions,     \* sequences of commands; a load is [run, dir, is_directed, color_map_path]
          GivenMaps,    \* color map files written by hand: name -> color map
          NoPath,       \* the option was not given
          MaxTorn       \* how many saved maps are left incomplete

VARIABLES map_files,  \* color map files: name -> [color_map, state]
          loading,    \* the load in progress
          libraries,  \* the loads that ended, for the properties
          session     \* the commands still to come

libraryVars == <<map_files, loading, libraries, session>>

NotLoading == [pc |-> "idle"]

Put(f, x, value) == [y \in DOMAIN f \cup {x} |-> IF y = x THEN value ELSE f[y]]

\* The time stamp of a saved map, one for each command.
Stamped(n) == <<"color_map", n>>

SavedMap == Stamped(Len(session))

\* Labels are numbered consecutively, as README asks of a map written by hand.
Consecutive(color_map) ==
    /\ IsFiniteSet(DOMAIN color_map)
    /\ \A l \in DOMAIN color_map : color_map[l] \in 0 .. Cardinality(DOMAIN color_map) - 1
    /\ \A k, l \in DOMAIN color_map : color_map[k] = color_map[l] => k = l

Commands(s) == {s[i] : i \in DOMAIN s}

ASSUME SessionsAssumption == \A s \in Sessions : s \in Seq(Commands(s))

\* No other file has the name of a saved map.
ASSUME PathsAssumption ==
    \A s \in Sessions : \A n \in 0 .. Len(s) : Stamped(n) # NoPath /\ Stamped(n) \notin DOMAIN GivenMaps

ASSUME GivenMapsAssumption ==
    NoPath \notin DOMAIN GivenMaps /\ \A f \in DOMAIN GivenMaps : Consecutive(GivenMaps[f])

\* A directory has finitely many files, and a document is two sequences.
ASSUME DocumentsAssumption ==
    \A d \in DOMAIN Directories :
        /\ IsFiniteSet(DOMAIN Directories[d])
        /\ \A f \in DOMAIN Directories[d] :
             /\ Directories[d][f].nodes \in Seq(ToSet(Directories[d][f].nodes))
             /\ Directories[d][f].links \in Seq(ToSet(Directories[d][f].links))

\* A directory that cannot be listed ends a run before it does anything.
ASSUME LoadsAssumption ==
    \A s \in Sessions : \A c \in Commands(s) : c.run = "load" => c.dir \in DOMAIN Directories

-----------------------------------------------------------------------------
(* GraphmlColorMapIOManager.                                               *)

\* A row is the label, a comma and the color; it is split at its first comma, and a
\* color ends with its digits.
written_label(l) == IF l[1] = "comma" THEN l[2] ELSE l

written_color(l, color) == IF l[1] = "comma" THEN l[3] ELSE color

\* The order of std::map, in which the rows are written.
label_before(a, b) ==
    LET m == written_label(a)
        n == written_label(b)
        suffix(l) == IF l[1] # "comma" THEN -1 ELSE IF l[3] = NoColor THEN MAX_UINT32 + 1 ELSE l[3] IN
    \/ m[1] = "digits" /\ n[1] # "digits"
    \/ m[1] = n[1] /\ m[2] < n[2]
    \/ m = n /\ suffix(a) < suffix(b)

MalformedRow(color_map) == \E l \in DOMAIN color_map : written_color(l, color_map[l]) = NoColor

\* Of rows with one label the last one counts.
last_row(color_map, m) ==
    CHOOSE l \in DOMAIN color_map :
        /\ written_label(l) = m
        /\ \A k \in DOMAIN color_map : written_label(k) = m => k = l \/ label_before(k, l)

parse_rows(color_map) ==
    [m \in {written_label(l) : l \in DOMAIN color_map} |->
        LET l == last_row(color_map, m) IN written_color(l, color_map[l])]

Unreadable == [color_map |-> <<>>, state |-> "unreadable"]

\* What is read of a map that was saved: another map, or none, if a label has a comma.
Saved(color_map) ==
    IF MalformedRow(color_map) THEN Unreadable
    ELSE [color_map |-> parse_rows(color_map),
          state |-> IF parse_rows(color_map) = color_map THEN "whole" ELSE "altered"]

\* What is read of a file that ends early: the rows up to some label, of the last of
\* which some digits of the color may be there.
Torn(color_map) ==
    LET upto(l) == Restrict(color_map, {k \in DOMAIN color_map : k = l \/ label_before(k, l)})
        legible == {l \in DOMAIN color_map : ~MalformedRow(upto(l))}
        color(l) == written_color(l, color_map[l]) IN
    {Unreadable, [color_map |-> <<>>, state |-> "torn"]}
        \cup {[color_map |-> parse_rows(upto(l)), state |-> "torn"] : l \in legible}
        \cup {[color_map |-> [parse_rows(upto(l)) EXCEPT ![written_label(l)] = color(l) \div 10], state |-> "torn"] :
                 l \in {l \in legible : color(l) >= 10}}

-----------------------------------------------------------------------------
(* A load: the command, the files still to be read, the reader's           *)
(* m_color_map, the graphs, what the vertices of the files are called, and *)
(* the map files the map descends from.                                    *)

\* Up to the construction of the reader.  The file of a map must be there and whole
\* rows be in it.
StartLoad ==
    LET c == Head(session) IN
    /\ loading = NotLoading
    /\ session # <<>>
    /\ c.run = "load"
    /\ session' = Tail(session)
    /\ \E order \in SetToSeqs(DOMAIN Directories[c.dir]) :
         \/ /\ c.color_map_path = NoPath
            /\ loading' = [pc |-> "read", command |-> c, files |-> order,
                           color_map |-> <<>>, graphs |-> <<>>, lineage |-> {}]
         \/ /\ c.color_map_path \in DOMAIN map_files
            /\ map_files[c.color_map_path].state # "unreadable"
            /\ loading' = [pc |-> "read", command |-> c, files |-> order,
                           color_map |-> map_files[c.color_map_path].color_map, graphs |-> <<>>,
                           lineage |-> {c.color_map_path}
                               \cup UNION {load.lineage : load \in {l \in libraries : l.saved = c.color_map_path}}]
    /\ UNCHANGED <<map_files, libraries>>

\* The map file is missing or malformed.
LoadRefused ==
    LET path == Head(session).color_map_path IN
    /\ loading = NotLoading
    /\ session # <<>>
    /\ Head(session).run = "load"
    /\ path # NoPath
    /\ path \in DOMAIN map_files => map_files[path].state = "unreadable"
    /\ session' = Tail(session)
    /\ UNCHANGED <<map_files, loading, libraries>>

NextDocument == Directories[loading.command.dir][Head(loading.files)]

NextGraphRead == read_graphml(NextDocument, loading.command.is_directed, loading.color_map)

ReadGraph ==
    /\ loading.pc = "read"
    /\ loading.files # <<>>
    /\ NextGraphRead # Rejected
    /\ loading' = [loading EXCEPT !.files = Tail(@),
                      !.graphs = Put(@, Head(loading.files), NextGraphRead),
                      !.color_map = extract_colors(NextDocument, @)]
    /\ UNCHANGED <<map_files, libraries, session>>

\* The exception of a reader ends the run.
ReadFails ==
    /\ loading.pc = "read"
    /\ loading.files # <<>>
    /\ NextGraphRead = Rejected
    /\ loading' = NotLoading
    /\ UNCHANGED <<map_files, libraries, session>>

Loaded(saved) ==
    [command |-> loading.command, graphs |-> loading.graphs, color_map |-> loading.color_map,
     lineage |-> loading.lineage, saved |-> saved]

AllRead == loading.pc = "read" /\ loading.files = <<>>

\* color_map_save_folder is empty if no map was given.
EndLoad ==
    /\ AllRead
    /\ loading.command.color_map_path = NoPath
    /\ libraries' = libraries \cup {Loaded(NoPath)}
    /\ loading' = NotLoading
    /\ UNCHANGED <<map_files, session>>

\* Mutant: the map is the one the run started from.
SaveMap_initial ==
    /\ AllRead
    /\ loading.command.color_map_path # NoPath
    /\ map_files' = Put(map_files, SavedMap, map_files[loading.command.color_map_path])
    /\ libraries' = libraries \cup {Loaded(SavedMap)}
    /\ loading' = NotLoading
    /\ UNCHANGED session

SaveMap ==
    /\ AllRead
    /\ loading.command.color_map_path # NoPath
    /\ map_files' = Put(map_files, SavedMap, Saved(loading.color_map))
    /\ libraries' = libraries \cup {Loaded(SavedMap)}
    /\ loading' = NotLoading
    /\ UNCHANGED session

\* The run ends in the middle of the file, or goes on because what was still in the
\* buffer of the stream fails to be written only when it is closed.
SaveBreaks ==
    /\ AllRead
    /\ loading.command.color_map_path # NoPath
    /\ Cardinality({f \in DOMAIN map_files : map_files[f].state # "whole"}) < MaxTorn
    /\ \E content \in Torn(loading.color_map) : map_files' = Put(map_files, SavedMap, content)
    /\ libraries' \in {libraries, libraries \cup {Loaded(SavedMap)}}
    /\ loading' = NotLoading
    /\ UNCHANGED session

AbortLoad ==
    /\ loading # NotLoading
    /\ loading' = NotLoading
    /\ UNCHANGED <<map_files, libraries, session>>

LibraryInit ==
    /\ map_files = [f \in DOMAIN GivenMaps |-> [color_map |-> GivenMaps[f], state |-> "whole"]]
    /\ loading = NotLoading
    /\ libraries = {}
    /\ session \in Sessions

LibraryNext == StartLoad \/ LoadRefused \/ ReadGraph \/ ReadFails \/ EndLoad \/ SaveMap \/ SaveBreaks \/ AbortLoad

LibrarySpec == LibraryInit /\ [][LibraryNext]_libraryVars
-----------------------------------------------------------------------------
(* Properties.                                                             *)

\* What the vertices of the graphs of a load are called, and their colors.
LabelColors(load) ==
    UNION {LET doc == Directories[load.command.dir][f] IN
           {<<label(doc.nodes[v + 1].color), load.graphs[f].m_colors[v]>> : v \in DOMAIN load.graphs[f].m_colors}
              : f \in DOMAIN load.graphs}

\* The maps a load descends from were all written to their end, and read as written.
Undamaged(load) == \A f \in load.lineage : map_files[f].state = "whole"

\* a and b are one load, or b was given the map that a saved, or one that descends
\* from it.
Follows(b, a) == a = b \/ a.saved \in b.lineage

\* Colors mean labels: of the graphs of a load, and of the loads whose maps descend
\* from the one it saved, two vertices have the same color exactly when their labels
\* are the same, in whatever order directories list their files and wherever runs
\* stop.  It is what lets counts that one run has cached be compared with counts of
\* another; branches of maps, and those that were damaged or are read as other maps
\* because a label has a comma, are not covered.
ColorsMeanLabels ==
    \A a, b \in libraries : Follows(b, a) /\ Undamaged(b) =>
        \A x \in LabelColors(a), y \in LabelColors(b) : x[1] = y[1] <=> x[2] = y[2]

\* A load has a map and the graphs read so far; what it saved is named after it.
LibraryTypeOK ==
    /\ \A f \in DOMAIN map_files : map_files[f].state \in {"whole", "altered", "torn", "unreadable"}
    /\ loading.pc \in {"idle", "read"}
    /\ \A load \in libraries : load.saved \in DOMAIN map_files \cup {NoPath} /\ load.lineage \subseteq DOMAIN map_files
=============================================================================
