---------------------------- MODULE MCControlPanel ----------------------------
(* ControlPanel on a small site: a page with two forms, one without an action that only
   shows alerts, as the settings of the logs, and one with an action and two buttons of
   their own, as the page of a custom command: its Save only shows alerts, its Delete
   answers with the list. *)
EXTENDS ControlPanel

CONSTANTS command, list, settings, edit, update, delete

MCPages == {command, list}
MCPageOf == [f \in Forms |-> command]
MCActions == {update, delete}
MCActionOf == [f \in Forms |-> IF f = edit THEN update ELSE None]
MCButtons == {[form |-> edit, action |-> update, alerts |-> TRUE],
              [form |-> edit, action |-> delete, alerts |-> FALSE]}
MCLeads == [a \in MCActions |-> IF a = delete THEN list ELSE command]
=============================================================================
