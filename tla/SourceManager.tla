---------------------------- MODULE SourceManager ----------------------------
(***************************************************************************)
(* The list of providers and its editor (ui/admin.js, the inline           *)
(* confirmation of ui/core.js).  Requests of the page are answered in any  *)
(* order; the page compares the number of the latest one, kept here as a   *)
(* flag of each request in flight.                                         *)
(***************************************************************************)
EXTENDS Naturals, FiniteSets

CONSTANTS
    Sources,       \* identities of providers
    New,           \* the provider of an editor that adds one
    Requests,      \* requests in flight: a bound
    MaxEditors,    \* bound on the editors opened
    MaxActions,    \* bound on the requests sent
    NoEditor, NoSource

Editor == [of : Sources \cup {New}, valid : BOOLEAN, dirty : BOOLEAN, number : Nat]

ASSUME SourceConstants == NoEditor \notin Editor

VARIABLES
    stored,        \* the server's providers: absent, off or on
    sources,       \* state.adminSources
    editor,        \* state.adminSourceEditor, with its number
    busy,          \* state.adminSourceBusy
    posts,         \* the requests in flight
    epg,           \* state.adminSourceEPGResult and adminSourceEPGError
    confirm,       \* activeInlineConfirm: the provider to delete
    editors, actions

sourceVars == <<stored, sources, editor, busy, posts, epg, confirm, editors, actions>>

NoPost == [pc |-> "idle", action |-> "none", source |-> NoSource, on |-> "on",
           latest |-> FALSE, from |-> 0, list |-> NoSource]

\* SOURCE_TEST_ACTIONS
Tests == {"test", "test_epg", "test_account"}

Listed == {s \in Sources : sources[s] # "absent"}

\* The requests once adminSourceRequestID has moved on.
Overtaken == [r \in Requests |-> [posts[r] EXCEPT !.latest = FALSE]]

\* The administrator's page has loaded the list, a viewer's page asks for it.
SourcesInit ==
    /\ stored \in [Sources -> {"absent", "on"}]
    /\ \/ /\ sources = stored
          /\ posts = [r \in Requests |-> NoPost]
       \/ /\ sources = [s \in Sources |-> "absent"]
          /\ \E r \in Requests :
                posts = [x \in Requests |-> IF x = r THEN [NoPost EXCEPT !.pc = "listing"] ELSE NoPost]
    /\ editor = NoEditor
    /\ busy = "no"
    /\ epg = "none"
    /\ confirm = NoSource
    /\ editors = 0
    /\ actions = MaxActions

\* submitAdminSource up to its await.
SubmitAdminSource(action, source, on, from) ==
    /\ actions > 0
    /\ actions' = actions - 1
    /\ \E r \in Requests :
          /\ posts[r] = NoPost
          /\ posts' = [Overtaken EXCEPT ![r] =
                          [pc |-> "sent", action |-> action, source |-> source, on |-> on,
                           latest |-> TRUE, from |-> from, list |-> NoSource]]
    /\ busy' = action
    /\ epg' = IF action = "test_epg" THEN "none" ELSE epg

(***************************************************************************)
(* The rows                                                                *)
(***************************************************************************)
\* Test, Enable and Disable of a row, which the editor's dialog covers.
RowAction(action, s) ==
    /\ editor = NoEditor
    /\ s \in Listed
    /\ confirm' = NoSource
    /\ SubmitAdminSource(action, s, IF sources[s] = "on" THEN "off" ELSE "on", 0)
    /\ UNCHANGED <<stored, sources, editor, editors>>

\* Delete asks first; another question replaces the one that is open.
OpenInlineConfirm(s) ==
    /\ editor = NoEditor
    /\ s \in Listed
    /\ confirm # s
    /\ confirm' = s
    /\ UNCHANGED <<stored, sources, editor, busy, posts, epg, editors, actions>>

\* No, Escape, or nothing for inlineConfirmIdleMs.
CloseInlineConfirm ==
    /\ confirm # NoSource
    /\ confirm' = NoSource
    /\ UNCHANGED <<stored, sources, editor, busy, posts, epg, editors, actions>>

DeleteConfirmed ==
    /\ confirm # NoSource
    /\ confirm' = NoSource
    /\ SubmitAdminSource("delete", confirm, "on", 0)
    /\ UNCHANGED <<stored, sources, editor, editors>>

\* Refresh, of all providers or of one: the list is read after the answer.
RefreshSources ==
    /\ editor = NoEditor
    /\ actions > 0
    /\ actions' = actions - 1
    /\ confirm' = NoSource
    /\ \E r \in Requests :
          /\ posts[r] = NoPost
          /\ posts' = [posts EXCEPT ![r].pc = "sent", ![r].action = "refresh"]
    /\ UNCHANGED <<stored, sources, editor, busy, epg, editors>>

(***************************************************************************)
(* The editor                                                              *)
(***************************************************************************)
OpenEditor(of) ==
    /\ editor = NoEditor
    /\ editors < MaxEditors
    /\ of = New \/ of \in Listed
    /\ editors' = editors + 1
    /\ editor' = [of |-> of, valid |-> (of # New), dirty |-> FALSE, number |-> editors + 1]
    /\ epg' = "none"
    /\ confirm' = NoSource
    /\ UNCHANGED <<stored, sources, busy, posts, actions>>

\* The fields; those of the alternate guide drop the result of its test.
EditField(valid, dirty, guideField) ==
    /\ editor # NoEditor
    /\ ~dirty => (valid <=> editor.of # New)
    /\ editor' = [editor EXCEPT !.valid = valid, !.dirty = dirty]
    /\ epg' = IF guideField THEN "none" ELSE epg
    /\ UNCHANGED <<stored, sources, busy, posts, confirm, editors, actions>>

\* The buttons of the editor are disabled while busy.  What is missing in the
\* draft is told before anything is sent.
EditorAction(action) ==
    /\ editor # NoEditor
    /\ busy = "no"
    /\ \/ /\ action \in {"save", "test"} /\ ~editor.valid
          /\ posts' = Overtaken
          /\ UNCHANGED <<busy, epg, actions>>
       \/ /\ action \in {"save", "test"} => editor.valid
          /\ SubmitAdminSource(action, editor.of, "on", editor.number)
    /\ confirm' = NoSource
    /\ UNCHANGED <<stored, sources, editor, editors>>

\* Mutant: what the editor has sent is still waited for.
CancelStillWaiting ==
    /\ editor # NoEditor
    /\ editor' = NoEditor
    /\ busy' = "no"
    /\ confirm' = NoSource
    /\ UNCHANGED <<stored, sources, posts, epg, editors, actions>>

\* The button Cancel.
Cancel ==
    /\ editor # NoEditor
    /\ editor' = NoEditor
    /\ posts' = Overtaken
    /\ busy' = "no"
    /\ confirm' = NoSource
    /\ UNCHANGED <<stored, sources, epg, editors, actions>>

\* Escape: with edits there is only a message.
DismissSourceEditor ==
    /\ editor # NoEditor
    /\ ~editor.dirty
    /\ Cancel

(***************************************************************************)
(* Answers                                                                 *)
(***************************************************************************)
\* What a request does to the providers of the server.
AfterRequest(p) ==
    CASE p.action = "save" /\ p.source = New ->
            {[stored EXCEPT ![s] = "on"] : s \in {x \in Sources : stored[x] = "absent"}}
      [] p.action = "save" /\ p.source # New ->
            {[stored EXCEPT ![p.source] = e] : e \in {"on", "off"}}
      [] p.action = "toggle" -> {[stored EXCEPT ![p.source] = p.on]}
      [] p.action = "delete" -> {[stored EXCEPT ![p.source] = "absent"]}
      [] OTHER -> {stored}

Handled(r) ==
    /\ posts[r].pc \in {"sent", "listing"}
    /\ \/ /\ posts' = [posts EXCEPT ![r].pc = "failed"]
          /\ UNCHANGED stored
       \/ \E after \in AfterRequest(posts[r]) :
             /\ stored' = after
             /\ posts' = [posts EXCEPT ![r].pc = IF @ = "sent" THEN "done" ELSE "listed",
                                       ![r].list = after]
    /\ UNCHANGED <<sources, editor, busy, epg, confirm, editors, actions>>

\* rerenderSourceManager: the question goes with the row it is about.
Rerendered == confirm' = IF confirm \in Sources /\ sources'[confirm] = "absent" THEN NoSource ELSE confirm

\* submitAdminSource after its await: only the latest request counts.
Answered(r) ==
    LET p == posts[r]
    IN  /\ p.pc \in {"done", "failed"}
        /\ p.action # "refresh"
        /\ posts' = [posts EXCEPT ![r] = NoPost]
        /\ \/ /\ ~p.latest
              /\ UNCHANGED <<sources, editor, busy, epg, confirm>>
           \/ /\ p.latest
              /\ busy' = "no"
              /\ sources' = IF p.pc = "done" /\ p.action \notin Tests THEN p.list ELSE sources
              /\ editor' = IF p.pc = "done" /\ p.action \notin Tests THEN NoEditor ELSE editor
              /\ epg' = IF p.action # "test_epg" THEN epg
                        ELSE IF p.pc = "done" THEN "matched" ELSE "failed"
              /\ Rerendered
        /\ UNCHANGED <<stored, editors, actions>>

\* The answer to a refresh, and refreshAdminSources after it.
RefreshAnswered(r) ==
    /\ \/ /\ posts[r].pc = "done" /\ posts[r].action = "refresh"
          /\ posts' = [posts EXCEPT ![r] = [NoPost EXCEPT !.pc = "listing"]]
          /\ UNCHANGED sources
       \/ /\ posts[r].pc = "failed" /\ posts[r].action \in {"refresh", "none"}
          /\ posts' = [posts EXCEPT ![r] = NoPost]
          /\ UNCHANGED sources
       \/ /\ posts[r].pc = "listed"
          /\ posts' = [posts EXCEPT ![r] = NoPost]
          /\ sources' = posts[r].list
    /\ Rerendered
    /\ UNCHANGED <<stored, editor, busy, epg, editors, actions>>

SourcesNext ==
    \/ \E s \in Sources : \/ RowAction("test", s) \/ RowAction("toggle", s)
                          \/ OpenInlineConfirm(s) \/ OpenEditor(s)
    \/ OpenEditor(New)
    \/ \E valid, dirty, guideField \in BOOLEAN : EditField(valid, dirty, guideField)
    \/ \E action \in {"save"} \cup Tests : EditorAction(action)
    \/ Cancel \/ DismissSourceEditor
    \/ DeleteConfirmed \/ CloseInlineConfirm \/ RefreshSources
    \/ \E r \in Requests : Handled(r) \/ Answered(r) \/ RefreshAnswered(r)

(***************************************************************************)
(* Properties                                                              *)
(***************************************************************************)
\* An editor is closed by its viewer or by the answer of what was sent last;
\* never by what an editor before it has sent.
EditorsAreApart ==
    [][(editor # NoEditor /\ editor' = NoEditor)
          => \/ \A r \in Requests : ~posts'[r].latest /\ posts'[r].pc = posts[r].pc
             \/ \E r \in Requests : /\ posts[r].latest
                                    /\ posts'[r] = NoPost
                                    /\ posts[r].from \in {0, editor.number}]_sourceVars
=============================================================================
