------------------------- MODULE MCSessionAnalysis -------------------------
(***************************************************************************)
(* Small sessions for TLC: what an operator, a page and the driver may do  *)
(* in each, in any order and as often as its length allows.                *)
(***************************************************************************)
EXTENDS SessionAnalysis

MCPages == {"p1", "p2"}

Acting(channel, page, event) == [channel |-> channel, page |-> page, event |-> event]
Driver(type) == [Blank EXCEPT !.type = type, !.source = "playwright"]
Probe(type) == [Blank EXCEPT !.type = type, !.source = "runtime"]

At(path) == [path |-> path, hash |-> <<>>, query |-> "none"]
Home == At(<<"home">>)
Item(n) == At(<<"items", n>>)
Orders == At(<<"orders">>)

Leaf(field) == [field |-> field, depth |-> 1, item |-> 0, query |-> FALSE,
                value |-> [kind |-> "text", text |-> "ref7", size |-> 4]]

Field == [type |-> "text", name |-> "ref", id |-> "", path |-> "", value |-> NoValue,
          checked |-> FALSE, options |-> {}, chosen |-> NoValue, secret |-> FALSE]

Button == [NoElement EXCEPT !.name = "go", !.tag = "button", !.locators = [id |-> "b1"]]
Input == [NoElement EXCEPT !.name = "ref", !.tag = "input", !.input = "text",
                           !.locators = [name |-> "ref"]]
Bare == [NoElement EXCEPT !.tag = "input", !.path = "form>input"]

Typing(value) ==
    [Probe("user_input") EXCEPT !.element = Input, !.form = "f", !.url = Home,
                                !.fields = <<[Field EXCEPT !.value = value]>>,
                                !.leaves = <<Leaf("ref")>>]
Submit == [Probe("user_submit") EXCEPT !.element = Button, !.form = "f", !.url = Home,
                                       !.fields = <<[Field EXCEPT !.value = "sent"]>>]
Click(element) == [Probe("user_click") EXCEPT !.element = element, !.url = Home]
Call(type, url) == [Probe(type) EXCEPT !.method = "GET", !.url = url, !.leaves = <<Leaf("ref")>>]
Request(url) ==
    [Driver("http_request") EXCEPT !.method = "GET", !.url = url, !.resource = "xhr",
                                   !.leaves = <<Leaf("ref")>>]
Response(url, status) ==
    [Driver("http_response") EXCEPT !.method = "GET", !.url = url, !.status = status,
                                    !.leaves = <<Leaf("id")>>]
Navigated(url) == [Driver("navigation_committed") EXCEPT !.url = url]
Operated == [Driver("http_request") EXCEPT !.method = "POST", !.url = At(<<"graphql">>),
                                           !.operation = "Orders", !.resource = "fetch"]

Node(path, parent, item) == [path |-> path, parent |-> parent, item |-> item, type |-> "string"]
Plain == <<Node("a", 0, 0)>>
Nested == <<Node("a", 0, 0), [Node("b", 0, 0) EXCEPT !.type = "object"], Node("b.c", 2, 0)>>

Scan == [Blank EXCEPT !.type = "dom_forms", !.source = "dom", !.url = Home,
                      !.forms = <<[id |-> "f", path |-> "", index |-> 0,
                                   fields |-> <<[Field EXCEPT !.value = "seen"]>>]>>]
Gap(reason) == [Blank EXCEPT !.type = "capture_gap", !.reason = reason]
Failed(site) == [Blank EXCEPT !.type = "sensor_error", !.reason = site]
Snapshot(type) == [Driver(type) EXCEPT !.url = Home]

Row(cells) == [id |-> "", index |-> -1, cells |-> cells]
Table(row, visible) == [id |-> "t", columns |-> <<"name">>, onHeader |-> FALSE,
                        row |-> row, visible |-> visible]
Edit(cells) == [Click(Button) EXCEPT !.table = Table([Row(cells) EXCEPT !.index = 0], <<>>)]
Scroll(cells) == [Probe("user_scroll") EXCEPT !.table = Table(NoRow, <<Row(cells)>>), !.url = Home]

Opened == [Click([Button EXCEPT !.role = "combobox"]) EXCEPT
              !.aria = [NoAria EXCEPT !.role = "combobox", !.controls = "lb"]]
Option == [Click([Bare EXCEPT !.role = "option", !.name = "one"]) EXCEPT
              !.aria = [NoAria EXCEPT !.role = "option", !.listbox = "lb"]]

-----------------------------------------------------------------------------
(* A value that is looked up: typed, stored, asked for and answered.       *)
Lookup ==
    [acts |-> {Acting("isolated", "p1", Typing("ref7")),
               Acting("main", "p1", [Probe("storage_change") EXCEPT !.leaves = <<Leaf("ref")>>]),
               Acting("main", "p1", Call("runtime_fetch", Item("7"))),
               Acting("handler", "p1", Request(Item("7"))),
               Acting("load", "p1", Navigated(Home))},
     lapses |-> {2}, length |-> 4, before |-> <<>>]

(* Calls of several endpoints, their answers and their bodies.             *)
Calls ==
    [acts |-> {Acting("driver", "p1", Request(Item("7"))), Acting("driver", "p1", Request(Item("8"))),
               Acting("main", "p1", Call("runtime_fetch", Item("7"))),
               Acting("driver", "p1", Operated),
               Acting("main", "p1", [Call("runtime_fetch", At(<<"graphql">>)) EXCEPT !.method = "POST"]),
               Acting("driver", "p1", [Response(Item("7"), 200) EXCEPT !.body = Plain]),
               Acting("driver", "p1", [Response(Item("8"), 200) EXCEPT !.body = Nested])},
     lapses |-> {1}, length |-> 4, before |-> <<Stamp(Request(Item("9")), 1, 0)>>]

(* What an operator does in one sitting, with pauses.                      *)
Activity1 ==
    [acts |-> {Acting("isolated", "p1", Click(Button)), Acting("isolated", "p1", Submit),
               Acting("driver", "p1", Navigated(Home)),
               Acting("main", "p1", [Probe("runtime_history") EXCEPT !.url = Orders]),
               Acting("driver", "p1", Request(Orders))},
     lapses |-> {1, 6}, length |-> 4, before |-> <<>>]

(* Forms in two pages and one document after another.                      *)
Forms ==
    [acts |-> {Acting("driver", "p1", Scan), Acting("isolated", "p1", Typing("x")),
               Acting("isolated", "p1", Typing("y")), Acting("isolated", "p1", Submit),
               Acting("isolated", "p1", Click(Bare)), Acting("isolated", "p2", Typing("y")),
               Acting("load", "p1", Navigated(Home))},
     lapses |-> {1}, length |-> 4, before |-> <<>>]

(* What a capture lacks, with and without what it needs to be whole.       *)
QualityActs ==
    {Acting("driver", "p1", Request(Home)), Acting("isolated", "p1", Click(Button)),
     Acting("main", "p1", Call("runtime_fetch", Home)), Acting("driver", "p1", Snapshot("dom_snapshot")),
     Acting("driver", "p1", Failed("runtime_drain")),
     Acting("driver", "p1", Gap("runtime_main_world_unavailable")),
     Acting("driver", "p1", [Response(Home, 404) EXCEPT !.type = "extension_response",
                                                        !.source = "extension"]),
     Acting("driver", "p1", Response(Home, 200))}
Quality == [acts |-> QualityActs, lapses |-> {1}, length |-> 3, before |-> <<>>]
Whole == [Quality EXCEPT !.length = 4,
                         !.before = <<Stamp(Snapshot("dom_snapshot"), 1, 0),
                                      Stamp(Snapshot("storage_snapshot"), 2, 0)>>]

(* A combobox, and a table that is worked and scrolled.                    *)
Widgets ==
    [acts |-> {Acting("isolated", "p1", Edit("ann")), Acting("isolated", "p1", Edit("bob")),
               Acting("isolated", "p1", Scroll("bob")), Acting("isolated", "p1", Opened),
               Acting("isolated", "p1", Option)},
     lapses |-> {1}, length |-> 3, before |-> <<>>]

MCSessions == [lookup |-> Lookup, calls |-> Calls, activity |-> Activity1, forms |-> Forms,
               widgets |-> Widgets, quality |-> Quality, whole |-> Whole]
WidgetSessions == [widgets |-> Widgets]
LookupSessions == [lookup |-> Lookup]

MCIdentifiers == {"7", "8", "9"}
MCKindOf == [s \in MCIdentifiers |-> "numeric"]
MCParameterAfter == [s \in {"items"} \cup MCIdentifiers |-> "{itemId}"]
MCTokens == [f \in {"ref", "id"} |-> {f}]
MCRouteWords == {"items", "orders", "home", "graphql", "{itemId}", "{id}"}
=============================================================================
