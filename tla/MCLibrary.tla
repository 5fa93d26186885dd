----------------------------- MODULE MCLibrary -----------------------------
(***************************************************************************)
(* Two requests in flight: each seed is a small database with the requests *)
(* that meet there.                                                        *)
(***************************************************************************)
EXTENDS Library

CONSTANTS r1, r2

MCMinNote == -2

Native(o) == [owner |-> o, name |-> "mine", har |-> FALSE, version |-> 0, public |-> FALSE,
              mirrors |-> TRUE]
Har(o, n) == [Native(o) EXCEPT !.har = TRUE, !.name = n]
Public(t) == [t EXCEPT !.public = TRUE]
Job(o, t) == [owner |-> o, template |-> t, own |-> FALSE, disabled |-> FALSE]
Sub(o, s) == [owner |-> o, source |-> s, enabled |-> TRUE]
Wish(o, t) == [owner |-> o, template |-> t, status |-> "pending"]
Came(i, e, t) == [key |-> <<i, e>>, row |-> [template |-> t, version |-> 0]]
Empty == [templates |-> <<>>, tasks |-> <<>>, subs |-> <<>>, links |-> {}, pushes |-> <<>>,
          notes |-> {}, ops |-> {}, requests |-> 2]

SeedList ==
    <<[Empty EXCEPT !.templates = <<Native("ann"), Native("bob")>>, !.tasks = <<Job("ann", 1)>>,
        !.ops = {"task_create", "task_update", "task_delete", "task_batch", "template_delete"}],
     [Empty EXCEPT !.templates = <<Native("ann"), Native("bob")>>, !.tasks = <<Job("ann", 1)>>,
        !.ops = {"task_update", "task_delete", "template_delete"}, !.requests = 3],
     [Empty EXCEPT !.templates = <<Public(Har("ann", "e1")), Native("ann")>>,
        !.ops = {"template_create", "template_import", "template_update", "har_update",
                 "template_delete", "copy", "publish"}],
     [Empty EXCEPT !.templates = <<Native("ann"), Har("bob", "e1"), Har("ann", "e1")>>,
        !.ops = {"walk", "template_create", "template_delete"}, !.requests = 3],
     [Empty EXCEPT !.templates = <<Native("ann")>>, !.pushes = <<Wish("ann", 1)>>,
        !.ops = {"push_create", "push_decide", "publish", "template_delete"}, !.requests = 3],
     [Empty EXCEPT !.subs = <<Sub("ann", "git")>>,
        !.ops = {"overview", "preview", "time"}, !.requests = 3],
     [Empty EXCEPT !.subs = <<Sub("ann", "git"), Sub("ann", "mirror"), Sub("bob", "git")>>,
        !.ops = {"overview", "browse", "sub_create", "sub_update", "sub_delete"}],
     [Empty EXCEPT !.templates = <<Har("ann", "e1"), Har("bob", "e1")>>,
        !.subs = <<Sub("ann", "git"), Sub("ann", "mirror")>>, !.links = {Came(1, "e1", 1)},
        !.ops = {"import", "template_delete", "sub_delete", "har_update"}],
     [Empty EXCEPT !.templates = <<Har("ann", "e1"), Har("bob", "e1")>>,
        !.subs = <<Sub("ann", "git")>>,
        !.ops = {"apply", "template_delete", "sub_delete"}],
     [Empty EXCEPT !.templates = <<Har("ann", "e1")>>, !.tasks = <<Job("ann", 1)>>,
        !.subs = <<Sub("ann", "git")>>, !.links = {Came(1, "e1", 1)},
        !.pushes = <<Wish("ann", 1)>>, !.notes = {<<"ann", 1>>},
        !.ops = {"backup", "restore", "task_delete", "template_delete", "task_update",
                 "note_set"}, !.requests = 3],
     [Empty EXCEPT !.notes = {<<"ann", 2>>, <<"ann", 3>>},
        !.ops = {"notepad", "notepad_list", "note_set"}, !.requests = 3],
     [Empty EXCEPT !.notes = {<<"ann", 1>>, <<"ann", 3>>},
        !.ops = {"notepad", "notepad_list", "note_get", "note_delete"}]>>

MCSeeds == ToSet(SeedList)
=============================================================================
