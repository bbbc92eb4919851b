----------------------------- MODULE MCPluginRuns -----------------------------
(* Two previews, an action that refreshes the preview, and a task.         *)
EXTENDS PluginRuns
=============================================================================
