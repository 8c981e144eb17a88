----------------------------- MODULE MCAgentRun -----------------------------
(* Three agents on one backend: one with tools, a schema and a timeout, in  *)
(* a pipeline, that names the backend's URL, a plain one that names another *)
(* path on it, and one that names no URL and gets the default.  The two     *)
(* explicit ones share a semaphore, and a bucket though their rates differ; *)
(* the third has a semaphore of its own.                                    *)
EXTENDS AgentRun, TLC

CONSTANTS tooled, plain, blank, v1, v2, local

MCRuns == {tooled, plain, blank}
MCURLs == {v1, v2}
MCHosts == {local}
MCHostPort == v1 :> local @@ v2 :> local
MCBaseURL == tooled :> v1 @@ plain :> v2 @@ blank :> NoURL
MCEnvConcurrency == local :> 1 @@ "default" :> 0
MCOverride == tooled :> 2 @@ plain :> 0 @@ blank :> 0
MCRateOverride == tooled :> <<1, 2>> @@ plain :> <<0, 1>> @@ blank :> <<0, 1>>
MCEnvRate == local :> <<1, 3>> @@ "default" :> <<0, 1>>
MCDefaultRate == <<0, 1>>
MCFormat == tooled :> "json" @@ plain :> "text" @@ blank :> "text"
MCHasSchema == tooled :> TRUE @@ plain :> FALSE @@ blank :> FALSE
MCUsesTools == tooled :> TRUE @@ plain :> FALSE @@ blank :> FALSE
MCHasTimeout == tooled :> TRUE @@ plain :> FALSE @@ blank :> FALSE
MCInPipeline == tooled :> TRUE @@ plain :> FALSE @@ blank :> FALSE
=============================================================================
