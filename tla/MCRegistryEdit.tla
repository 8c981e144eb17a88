--------------------------- MODULE MCRegistryEdit ---------------------------
(* Two agents and a pipeline.  An update of the first agent sends a prompt  *)
(* and gives the agent an output schema; two requests create the second     *)
(* agent, one that relies on a prompt file and one whose prompt_path is the *)
(* blueprint of the first agent; and an update of the pipeline makes it run *)
(* both.  At the start the second agent, its prompt and the schema may be   *)
(* there or not.                                                            *)
EXTENDS RegistryEdit, TLC

CONSTANTS
    a1, a2, p1,             \* the agents and the pipeline
    t1, t2, s1,             \* their prompt files and a schema file
    b1, b1s,                \* blueprints of a1: without and with the schema
    b2, b2x,                \* of a2: with prompt file t2, and a1's blueprint
    d1, d2,                 \* pipelines that run a1, and both
    text, schema,           \* a prompt, a schema
    put, post, over, pipe, j1

MCAgents == {a1, a2}
MCPipelines == {p1}
MCOthers == {t1, t2, s1}
MCContents == {b1, b1s, b2, b2x, d1, d2, text, schema}
MCDefines == b1 :> a1 @@ b1s :> a1 @@ b2 :> a2 @@ b2x :> a2 @@ d1 :> p1 @@ d2 :> p1
                @@ [c \in MCContents |-> NoName]
MCPromptPath == b2 :> t2 @@ b2x :> a1 @@ [c \in MCContents |-> t1]
MCSchemaPath == b1s :> s1 @@ [c \in MCContents |-> NoFile]
MCSchemas == {schema}
MCUses == d1 :> {a1} @@ d2 :> {a1, a2} @@ [c \in MCContents |-> {}]

MCOriginals ==
    {a1 :> b1 @@ a2 :> x @@ p1 :> d1 @@ t1 :> text @@ t2 :> t @@ s1 :> s :
        x \in {b2, Absent}, t \in {text, Absent}, s \in {schema, text, Absent}}

MCRequests == {put, post, over, pipe}
MCMethod == put :> "PUT" @@ post :> "POST" @@ over :> "POST" @@ pipe :> "PUT"
MCTarget == put :> a1 @@ post :> a2 @@ over :> a2 @@ pipe :> p1
MCBody == put :> b1s @@ post :> b2 @@ over :> b2x @@ pipe :> d2
MCPrompt == put :> text @@ post :> NoPrompt @@ over :> text @@ pipe :> NoPrompt
MCJobs == {j1}
MCJobPipeline == j1 :> p1
=============================================================================
