------------------------------ MODULE Application ------------------------------
(***************************************************************************)
(* The application: the windows, the presentations they show, and the      *)
(* plugins (gui/src/callbacks.cc, loader.cc, pluginmanager.cc, and what    *)
(* view.cc keeps in its menus, toolbar and side bar).                      *)
(*                                                                         *)
(* Plugins are loaded one at a time, when the main loop is idle, while the *)
(* user already works.  Everything happens on the UI thread, and a handler *)
(* is an action; only the job of the pipette keeps the presentation of a   *)
(* view alive, and lets go of it, on another thread.                       *)
(*                                                                         *)
(* A presentation lives as long as somebody refers to it: `presentations`  *)
(* and the menus of the views only have weak pointers.                     *)
(***************************************************************************)
EXTENDS Naturals, Sequences, SequencesExt

CONSTANTS
    Openers, Makers, Aggregators,   \* the plugins, by what they register: an
    Colouring, ToolPlugins,         \* observer of presentations, or of views
    Images, OtherFiles,             \* files that can be opened, and that cannot
    Directories,                    \* the plugins in each directory: a sequence
    CommandLines,                   \* [regular, overlay]: sequences of files
    MaxWindows, MaxPresentations    \* bounds: the number that are ever created

AllPlugins == Openers \cup Makers \cup Aggregators \cup Colouring \cup ToolPlugins
WindowIds == 1..MaxWindows
PresentationIds == 1..MaxPresentations
NullId == 0                         \* the null pointer

ASSUME BoundsAssumption == MaxWindows \in Nat \ {0} /\ MaxPresentations \in Nat
\* There is room for what a command line asks for.
ASSUME CommandLinesAssumption ==
    \A c \in CommandLines :
        /\ c \in [regular : Seq(Images \cup OtherFiles), overlay : Seq(Images \cup OtherFiles)]
        /\ Len(c.regular) < MaxWindows
        /\ Len(c.regular) + Len(c.overlay) < MaxPresentations

VARIABLES
    phase,      \* PluginManager::state; "stopped" when the idle handler has been removed
    directory,  \* currentDir
    toLoad,     \* the files from currentFile on; the order in a directory is arbitrary
    registered, \* the plugins that have registered what they can do
    filenames,  \* from the command line
    app,         \* see InitialApp
    held,       \* the presentations that a job of the pipette refers to
    late,       \* those of which such a job had the last reference
    quit        \* gtk_main_quit() has been called

appVars == <<phase, directory, toLoad, registered, filenames, app, held, late, quit>>

\* views, presentations and loadedPresentations, with what each view and each
\* presentation has: number of created, shown by each view, items in its menus,
\* tools in its toolbar, colour map lists in its side bar, children of an
\* aggregate, ColormapProviders; local is what the running handler refers to.
InitialApp ==
    [views |-> {}, created |-> 0, presentations |-> {}, opened |-> 0,
     shown |-> [v \in WindowIds |-> NullId],
     newMenu |-> [v \in WindowIds |-> {}],
     windowMenu |-> [v \in WindowIds |-> {}],
     tools |-> [v \in WindowIds |-> [t \in ToolPlugins |-> 0]],
     widgets |-> [v \in WindowIds |-> [o \in Colouring |-> 0]],
     children |-> [p \in PresentationIds |-> {}],
     providers |-> [p \in PresentationIds |-> [o \in Colouring |-> 0]],
     loadedPresentations |-> [f \in Images |-> NullId],
     local |-> {}]

Alive(u, kept) ==
    LET roots == ({u.shown[v] : v \in u.views} \cup kept \cup u.local) \ {NullId}
    IN roots \cup UNION {u.children[p] : p \in roots}

-----------------------------------------------------------------------------
(* Views.                                                                  *)

\* on_presentation_added_to_view(): viewAdded() of each ViewObserver.
AddTools(u, v) ==
    [u EXCEPT !.tools[v] = [t \in ToolPlugins |-> @[t] + IF t \in registered THEN 1 ELSE 0]]

\* setPresentation(): PresentationBase::open() opens each ColormapProvider.
PresentIn(u, v, p) ==
    [u EXCEPT !.shown[v] = p, !.widgets[v] = u.providers[p]]

\* on_presentation_created() and updateNewWindowMenu() of a view: items are
\* added for the new, removed for what is gone.
UpdateNewWindowMenu(u, v, new) ==
    [u EXCEPT !.windowMenu[v] = (@ \cup new) \cap Alive(u, held)]

UpdateMenus(u, new) ==
    [u EXCEPT !.windowMenu = [v \in WindowIds |->
        IF v \in u.views THEN (@[v] \cup new) \cap Alive(u, held) ELSE @[v]]]

\* View::create() and on_view_created(): the view is told of every presentation.
CreateView(u, p) ==
    LET v     == u.created + 1
        fresh == [u EXCEPT !.created = v, !.newMenu[v] = Makers \cap registered]
        view  == IF p = NullId THEN fresh ELSE PresentIn(fresh, v, p)
    IN UpdateNewWindowMenu([view EXCEPT !.views = @ \cup {v}], v, u.presentations)

\* create_scroom() with a presentation.
CreateScroom(u, p) == AddTools(CreateView(u, p), u.created + 1)

\* find_or_create_scroom().  There never are two views without presentation.
FindOrCreateScroom(u, p) ==
    IF \E v \in u.views : u.shown[v] = NullId
    THEN LET v == CHOOSE v \in u.views : u.shown[v] = NullId
         IN AddTools(PresentIn(u, v, p), v)
    ELSE CreateScroom(u, p)

-----------------------------------------------------------------------------
(* Presentations.                                                          *)

\* on_presentation_created().  The colour map plugin gives each presentation a
\* ColormapProvider, whenever it is told of it.
PresentationCreated(u, p) ==
    LET known == UpdateMenus([u EXCEPT !.presentations = @ \cup {p}], {p})
    IN [known EXCEPT !.providers[p] =
            [o \in Colouring |-> @[o] + IF o \in registered THEN 1 ELSE 0]]

\* on_presentation_possibly_destroyed().
PossiblyDestroyed(u) ==
    LET alive == Alive(u, held)
    IN IF u.presentations \subseteq alive THEN u
       ELSE UpdateMenus([u EXCEPT !.presentations = @ \cap alive], {})

\* A new presentation, that the handler refers to.
Create(u) ==
    [u EXCEPT !.opened = @ + 1, !.local = @ \cup {u.opened + 1}]

\* When the handler returns, or an exception is thrown.
Release(u) == [u EXCEPT !.local = {}]

CanOpen(f) == f \in Images /\ Openers \cap registered # {}

\* load(), and what its callers do when it throws.  It always opens the file.
LoadFile(u, f) ==
    IF CanOpen(f)
    THEN LET p == u.opened + 1
         IN Release(FindOrCreateScroom(PresentationCreated(Create(u), p), p))
    ELSE PossiblyDestroyed(u)

LoadFiles(u, files) == FoldLeft(LAMBDA w, f : LoadFile(w, f), u, files)

\* loadPresentation(), of a file that can be opened, for an aggregate.  It may
\* have been loaded already.
LoadPresentation(u, f) ==
    LET there == u.loadedPresentations[f] \in Alive(u, held)
    IN IF there THEN u
       ELSE [PresentationCreated(Create(u), u.opened + 1)
                EXCEPT !.loadedPresentations[f] = u.opened + 1]

AddChildOf(u, aggregate, f) ==
    LET loaded == LoadPresentation(u, f)
    IN [loaded EXCEPT !.children[aggregate] = @ \cup {loaded.loadedPresentations[f]}]

AddChildrenOf(u, aggregate, files) ==
    FoldLeft(LAMBDA w, f : AddChildOf(w, aggregate, f), u, files)

\* on_done_loading_plugins(): an aggregate of files.  The first file that cannot
\* be loaded ends it.
LoadAggregate(u, files) ==
    LET aggregate == u.opened + 1
        good      == SelectInSeq(files, LAMBDA f : ~CanOpen(f))
        loaded    == AddChildrenOf(Create(u), aggregate,
                                   IF good = 0 THEN files ELSE SubSeq(files, 1, good - 1))
    IN IF files = <<>> \/ Aggregators \cap registered = {} THEN u
       ELSE IF good # 0 THEN PossiblyDestroyed(Release(loaded))
       ELSE Release(FindOrCreateScroom(PresentationCreated(loaded, aggregate), aggregate))

-----------------------------------------------------------------------------
(* Loading of plugins: PluginManager::doWork(), when the main loop is idle. *)

\* on_scroom_bootstrap().
AppInit ==
    /\ phase = "FINDING_DIRECTORIES"
    /\ directory = 0
    /\ toLoad = {}
    /\ registered = {}
    /\ filenames \in CommandLines
    /\ app = IF filenames.regular = <<>> /\ filenames.overlay = <<>>
            THEN [InitialApp EXCEPT !.views = {1}, !.created = 1] ELSE InitialApp
    /\ held = {}
    /\ late = {}
    /\ quit = FALSE

FindDirectories ==
    /\ phase = "FINDING_DIRECTORIES"
    /\ phase' = "SCANNING_DIRECTORIES"
    /\ directory' = 1
    /\ UNCHANGED <<toLoad, registered, filenames, app, held, late, quit>>

ScanDirectory ==
    /\ phase = "SCANNING_DIRECTORIES"
    /\ IF directory > Len(Directories)
       THEN phase' = "LOADING_FILES" /\ UNCHANGED <<directory, toLoad>>
       ELSE /\ toLoad' = toLoad \cup Directories[directory]
            /\ directory' = directory + 1
            /\ UNCHANGED phase
    /\ UNCHANGED <<registered, filenames, app, held, late, quit>>

WrongNewViewObserver(u, t) ==
    [u EXCEPT !.tools = [v \in WindowIds |->
        IF v \in u.views THEN [u.tools[v] EXCEPT ![t] = @ + 1] ELSE u.tools[v]]]

\* on_new_viewobserver(): the views that show something get the tool at once.
NewViewObserver(u, t) ==
    [u EXCEPT !.tools = [v \in WindowIds |->
        IF v \in u.views /\ u.shown[v] # NullId
        THEN [u.tools[v] EXCEPT ![t] = @ + 1] ELSE u.tools[v]]]

\* on_newPresentationInterfaces_update(): the views list anew what can be created.
NewPresentationInterfacesUpdate(u, plugin) ==
    [u EXCEPT !.newMenu = [v \in WindowIds |->
        IF v \in u.views THEN (Makers \cap registered) \cup {plugin} ELSE {}]]

\* What is told of a plugin when it registers, as one thing or as several.  A new
\* presentation observer is not told of the presentations there are.
Registered(u, plugin) ==
    LET told == IF plugin \in ToolPlugins THEN NewViewObserver(u, plugin) ELSE u
    IN IF plugin \in Makers THEN NewPresentationInterfacesUpdate(told, plugin) ELSE told

\* registerCapabilities().  A file that cannot be used is skipped.
LoadPlugin(plugin) ==
    /\ phase = "LOADING_FILES"
    /\ plugin \in toLoad
    /\ toLoad' = toLoad \ {plugin}
    /\ \/ UNCHANGED <<registered, app>>
       \/ /\ registered' = registered \cup {plugin}
          /\ app' = Registered(app, plugin)
    /\ UNCHANGED <<phase, directory, filenames, held, late, quit>>

AllLoaded ==
    /\ phase = "LOADING_FILES"
    /\ toLoad = {}
    /\ phase' = "DONE"
    /\ UNCHANGED <<directory, toLoad, registered, filenames, app, held, late, quit>>

\* on_done_loading_plugins(), on which the idle handler is removed.
DoneLoadingPlugins ==
    /\ phase = "DONE"
    /\ phase' = "stopped"
    /\ filenames' = [regular |-> <<>>, overlay |-> <<>>]
    /\ app' = LoadAggregate(LoadFiles(app, filenames.regular), filenames.overlay)
    /\ quit' = (filenames # filenames' /\ app'.presentations = {})
    /\ UNCHANGED <<directory, toLoad, registered, held, late>>

-----------------------------------------------------------------------------
(* What the user does, in a window.                                        *)

Room(n) == app.opened + n <= MaxPresentations /\ app.created + n <= MaxWindows

UIOnly == UNCHANGED <<phase, directory, toLoad, registered, filenames, held, late, quit>>

\* on_open_activate(), or a file that is dropped: onDragDataReceived().  When a
\* dropped file cannot be opened nothing is cleaned up: nothing changes.
Open(f) ==
    /\ app.views # {} /\ Room(1)
    /\ app' = LoadFile(app, f)
    /\ UIOnly

\* on_new_activate() and create().
New(v, plugin) ==
    /\ v \in app.views /\ plugin \in app.newMenu[v] /\ Room(1)
    /\ app' = LET p == app.opened + 1
             IN Release(FindOrCreateScroom(PresentationCreated(Create(app), p), p))
    /\ UIOnly

\* on_newWindow_activate(): nothing happens when the presentation is gone.
NewWindow(v, p) ==
    /\ v \in app.views /\ p \in app.windowMenu[v] /\ app.created < MaxWindows
    /\ p \in Alive(app, held)
    /\ app' = FindOrCreateScroom(app, p)
    /\ UIOnly

\* on_view_destroyed().
ViewDestroyed(u, v) ==
    PossiblyDestroyed(
        [u EXCEPT !.views = @ \ {v}, !.shown[v] = NullId,
                  !.newMenu[v] = {}, !.windowMenu[v] = {},
                  !.tools[v] = [t \in ToolPlugins |-> 0],
                  !.widgets[v] = [o \in Colouring |-> 0]])

\* on_scroom_hide().
Close(v) ==
    /\ v \in app.views
    /\ app' = ViewDestroyed(app, v)
    /\ quit' = (app'.views = {})
    /\ UNCHANGED <<phase, directory, toLoad, registered, filenames, held, late>>

ViewsDestroyed(u, views) == FoldSet(LAMBDA v, w : ViewDestroyed(w, v), u, views)

\* on_quit_activate() hides every view.
Quit ==
    /\ app.views # {}
    /\ app' = ViewsDestroyed(app, app.views)
    /\ quit' = TRUE
    /\ UNCHANGED <<phase, directory, toLoad, registered, filenames, held, late>>

-----------------------------------------------------------------------------
(* The job of the pipette: computeValues() has a pointer to the            *)
(* presentation of its view while it computes.                             *)

JobHolds(v) ==
    /\ ToolPlugins \cap registered # {}
    /\ v \in app.views /\ app.shown[v] \notin held \cup {NullId}
    /\ held' = held \cup {app.shown[v]}
    /\ UNCHANGED <<phase, directory, toLoad, registered, filenames, app, late, quit>>

\* Nobody is told when this destroys the presentation.
JobLetsGo(p) ==
    /\ p \in held
    /\ held' = held \ {p}
    /\ late' = late \cup (Alive(app, held) \ Alive(app, held'))
    /\ UNCHANGED <<phase, directory, toLoad, registered, filenames, app, quit>>

-----------------------------------------------------------------------------
MainLoop ==
    \/ FindDirectories \/ ScanDirectory \/ AllLoaded \/ DoneLoadingPlugins
    \/ \E plugin \in AllPlugins : LoadPlugin(plugin)
    \/ \E f \in Images \cup OtherFiles : Open(f)
    \/ \E v \in WindowIds, plugin \in Makers : New(v, plugin)
    \/ \E v \in WindowIds, p \in PresentationIds : NewWindow(v, p)
    \/ \E v \in WindowIds : Close(v)
    \/ Quit

AppNext ==
    \/ ~quit /\ MainLoop
    \/ \E v \in WindowIds : JobHolds(v)
    \/ \E p \in PresentationIds : JobLetsGo(p)

AppSpec == AppInit /\ [][AppNext]_appVars

-----------------------------------------------------------------------------
(* Properties.                                                             *)

\* A view has the tool of each plugin once as soon as it shows something, no
\* matter which came first, the plugin, the view or the presentation
\* (callbacks.cc, on_presentation_added_to_view() and on_new_viewobserver()).
EachToolOnce ==
    \A v \in app.views, t \in ToolPlugins :
        app.tools[v][t] = IF t \in registered /\ app.shown[v] # NullId THEN 1 ELSE 0

\* Each view offers to open a window for exactly the presentations that exist,
\* wherever these came from; and for one that does not exist any more only when
\* a job of the pipette had the last reference (view.cc, updateNewWindowMenu()).
MenusAreCurrent ==
    \A v \in app.views :
        /\ Alive(app, held) \subseteq app.windowMenu[v]
        /\ app.windowMenu[v] \subseteq Alive(app, held) \cup late
        /\ app.newMenu[v] = Makers \cap registered

\* A presentation has no more than one list of colour maps, and each of its
\* views shows it (colormapprovider.cc, create() and open()).
OneColormapList ==
    \A v \in app.views, o \in Colouring :
        LET p == app.shown[v]
        IN /\ app.widgets[v][o] = (IF p = NullId THEN 0 ELSE app.providers[p][o])
           /\ app.widgets[v][o] <= 1

\* No window is left when the program ends (callbacks.cc, on_scroom_terminating()
\* and on_done_loading_plugins() ensure() it), nor does the program go on without
\* windows once the plugins have been loaded.
EndsWithItsWindows ==
    /\ quit => app.views = {}
    /\ (phase = "stopped" /\ ~quit) => app.views # {}

ApplicationIsRight ==
    EachToolOnce /\ MenusAreCurrent /\ OneColormapList /\ EndsWithItsWindows
=============================================================================
