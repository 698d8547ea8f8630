-------------------------- MODULE MCSandboxCalls --------------------------
(***************************************************************************)
(* Two calls.  The first may be any of five: between them they answer in   *)
(* each way and type each set of statuses a method of the SDK does, and    *)
(* have each kind of effect.  The second overwrites the setting the first  *)
(* may overwrite, or drops an object.                                      *)
(***************************************************************************)
EXTENDS SandboxCalls, SandboxErrorTypes, TLC

CONSTANTS c1, c2

Job(m, e) == [method |-> m, effect |-> e]

MCJobs ==
    c1 :> {Job(FileUploadFile, "make"), Job(FileDownloadFile, "make"),
           Job(BrowserGetProxyPac, "make"), Job(ProxySetUpstream, "set"),
           Job(JupyterDeleteSessions, "drop")}
    @@ c2 :> {Job(ProxySetUpstream, "set"), Job(NodejsDeleteSession, "drop")}

\* The methods of the SDK answer and type in no other way.
ASSUME ShapesCovered ==
    {<<m.answer, m.typed>> : m \in AllMethods} \subseteq
        {<<j.method.answer, j.method.typed>> : j \in MCJobs[c1]}
            \cup {<<"binary", {422}>>}

=============================================================================
