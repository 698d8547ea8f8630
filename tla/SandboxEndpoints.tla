------------------------- MODULE SandboxEndpoints -------------------------
(***************************************************************************)
(* The endpoint methods of the JavaScript SDK of the sandbox: one          *)
(* definition per public method of the twenty resource clients.  Each of   *)
(* them does the same eight things in the same order -- merge the headers, *)
(* join the address, call the fetcher with the caller's deadline, budget   *)
(* and abort signal, turn a success into {ok: true}, a status its switch   *)
(* names into a typed error and everything else into _unknown -- so a      *)
(* method is told from another by the verb it sends, what it sends in the  *)
(* body, how it reads the answer, and which statuses it types.  What all   *)
(* of them share is the action sequence of SandboxCalls.                   *)
(***************************************************************************)

\* What a method hands to the fetcher and makes of its answer.
\*   verb    the HTTP verb
\*   sends   "none", a "json" document, or a "form" with a file in it
\*   answer  "json": the text is read and parsed; "void": it is read and
\*           thrown away; "binary": the answer is handed over unread
\*   typed   the statuses its switch turns into an error of their own
Method(verb, sends, answer, typed) ==
    [verb |-> verb, sends |-> sends, answer |-> answer, typed |-> typed]

Methods == [verb   : {"GET", "POST", "PUT", "PATCH", "DELETE"},
            sends  : {"none", "json", "form"},
            answer : {"json", "void", "binary"},
            typed  : SUBSET {409, 422}]

-----------------------------------------------------------------------------
\* Auth: auth/client/Client.ts

AuthCreateTicket == Method("POST", "none", "json", {})
AuthAuthenticate == Method("GET", "none", "json", {})

AuthMethods ==
    {AuthCreateTicket, AuthAuthenticate}

-----------------------------------------------------------------------------
\* Bash: bash/client/Client.ts

BashExec == Method("POST", "json", "json", {422})
BashOutput == Method("POST", "json", "json", {422})
BashWrite == Method("POST", "json", "json", {422})
BashKill == Method("POST", "json", "json", {422})
BashSessions == Method("GET", "none", "json", {})
BashCreateSession == Method("POST", "json", "json", {422})
BashCloseSession == Method("POST", "none", "json", {422})

BashMethods ==
    {BashExec, BashOutput, BashWrite, BashKill, BashSessions,
     BashCreateSession, BashCloseSession}

-----------------------------------------------------------------------------
\* Browser: browser/client/Client.ts

BrowserGetInfo == Method("GET", "none", "json", {})
BrowserScreenshot == Method("GET", "none", "binary", {422})
BrowserExecuteAction == Method("POST", "json", "json", {422})
BrowserSetConfig == Method("POST", "json", "json", {422})
BrowserRestart == Method("POST", "json", "json", {422})
BrowserGetProxyPac == Method("GET", "none", "void", {})

BrowserMethods ==
    {BrowserGetInfo, BrowserScreenshot, BrowserExecuteAction,
     BrowserSetConfig, BrowserRestart, BrowserGetProxyPac}

-----------------------------------------------------------------------------
\* BrowserCaptcha: browserCaptcha/client/Client.ts

BrowserCaptchaDetect == Method("GET", "none", "json", {})
BrowserCaptchaWait == Method("POST", "json", "json", {422})

BrowserCaptchaMethods ==
    {BrowserCaptchaDetect, BrowserCaptchaWait}

-----------------------------------------------------------------------------
\* BrowserCookies: browserCookies/client/Client.ts

BrowserCookiesGetCookies == Method("GET", "none", "json", {422})
BrowserCookiesSetCookies == Method("POST", "json", "json", {422})
BrowserCookiesClearCookies == Method("DELETE", "none", "json", {})

BrowserCookiesMethods ==
    {BrowserCookiesGetCookies, BrowserCookiesSetCookies,
     BrowserCookiesClearCookies}

-----------------------------------------------------------------------------
\* BrowserNetwork: browserNetwork/client/Client.ts

BrowserNetworkSetHeaders == Method("POST", "json", "json", {422})
BrowserNetworkSetScopedHeaders == Method("POST", "json", "json", {422})
BrowserNetworkAddRoute == Method("POST", "json", "json", {422})
BrowserNetworkRemoveRoute == Method("DELETE", "json", "json", {422})
BrowserNetworkGetRequests == Method("GET", "none", "json", {422})
BrowserNetworkExportHar == Method("POST", "json", "json", {422})

BrowserNetworkMethods ==
    {BrowserNetworkSetHeaders, BrowserNetworkSetScopedHeaders,
     BrowserNetworkAddRoute, BrowserNetworkRemoveRoute,
     BrowserNetworkGetRequests, BrowserNetworkExportHar}

-----------------------------------------------------------------------------
\* BrowserPage: browserPage/client/Client.ts

BrowserPageNavigate == Method("POST", "json", "json", {422})
BrowserPageBack == Method("POST", "none", "json", {})
BrowserPageForward == Method("POST", "none", "json", {})
BrowserPageReload == Method("POST", "none", "json", {})
BrowserPageClick == Method("POST", "json", "json", {422})
BrowserPageFill == Method("POST", "json", "json", {422})
BrowserPageTypeText == Method("POST", "json", "json", {422})
BrowserPagePressKey == Method("POST", "json", "json", {422})
BrowserPageHotKey == Method("POST", "json", "json", {422})
BrowserPageHover == Method("POST", "json", "json", {422})
BrowserPageSelectOption == Method("POST", "json", "json", {422})
BrowserPageCheck == Method("POST", "json", "json", {422})
BrowserPageUncheck == Method("POST", "json", "json", {422})
BrowserPageUploadFile == Method("POST", "json", "json", {422})
BrowserPageFillForm == Method("POST", "json", "json", {422})
BrowserPageScroll == Method("POST", "json", "json", {422})
BrowserPageScrollTo == Method("POST", "json", "json", {422})
BrowserPageScrollToElement == Method("POST", "json", "json", {422})
BrowserPageScreenshot == Method("GET", "none", "binary", {422})
BrowserPageRecord == Method("POST", "json", "json", {422})
BrowserPageGetHtml == Method("GET", "none", "json", {422})
BrowserPageGetText == Method("GET", "none", "json", {})
BrowserPageGetMarkdown == Method("GET", "none", "json", {})
BrowserPageGetElements == Method("GET", "none", "json", {})
BrowserPageGetConsole == Method("GET", "none", "json", {422})
BrowserPageExportConsole == Method("POST", "json", "json", {422})
BrowserPageEvaluate == Method("POST", "json", "json", {422})
BrowserPageFindText == Method("POST", "json", "json", {422})
BrowserPageWait == Method("POST", "json", "json", {422})

BrowserPageMethods ==
    {BrowserPageNavigate, BrowserPageBack, BrowserPageForward,
     BrowserPageReload, BrowserPageClick, BrowserPageFill,
     BrowserPageTypeText, BrowserPagePressKey, BrowserPageHotKey,
     BrowserPageHover, BrowserPageSelectOption, BrowserPageCheck,
     BrowserPageUncheck, BrowserPageUploadFile, BrowserPageFillForm,
     BrowserPageScroll, BrowserPageScrollTo, BrowserPageScrollToElement,
     BrowserPageScreenshot, BrowserPageRecord, BrowserPageGetHtml,
     BrowserPageGetText, BrowserPageGetMarkdown, BrowserPageGetElements,
     BrowserPageGetConsole, BrowserPageExportConsole, BrowserPageEvaluate,
     BrowserPageFindText, BrowserPageWait}

-----------------------------------------------------------------------------
\* BrowserState: browserState/client/Client.ts

BrowserStateSave == Method("POST", "json", "json", {422})
BrowserStateLoad == Method("POST", "json", "json", {422})

BrowserStateMethods ==
    {BrowserStateSave, BrowserStateLoad}

-----------------------------------------------------------------------------
\* BrowserTabs: browserTabs/client/Client.ts

BrowserTabsList == Method("GET", "none", "json", {})
BrowserTabsCreate == Method("POST", "json", "json", {422})
BrowserTabsClose == Method("DELETE", "none", "json", {422})
BrowserTabsActivate == Method("PUT", "none", "json", {422})

BrowserTabsMethods ==
    {BrowserTabsList, BrowserTabsCreate, BrowserTabsClose,
     BrowserTabsActivate}

-----------------------------------------------------------------------------
\* Code: code/client/Client.ts

CodeExecuteCode == Method("POST", "json", "json", {422})
CodeGetInfo == Method("GET", "none", "json", {})

CodeMethods ==
    {CodeExecuteCode, CodeGetInfo}

-----------------------------------------------------------------------------
\* Display: display/client/Client.ts

DisplayRecord == Method("POST", "json", "json", {422})

DisplayMethods ==
    {DisplayRecord}

-----------------------------------------------------------------------------
\* File: file/client/Client.ts

FileReadFile == Method("POST", "json", "json", {422})
FileWriteFile == Method("POST", "json", "json", {422})
FileReplaceInFile == Method("POST", "json", "json", {422})
FileSearchInFile == Method("POST", "json", "json", {422})
FileFindFiles == Method("POST", "json", "json", {422})
FileGrepFiles == Method("POST", "json", "json", {422})
FileGlobFiles == Method("POST", "json", "json", {422})
FileUploadFile == Method("POST", "form", "json", {422})
FileDownloadFile == Method("GET", "none", "binary", {409, 422})
FileListPath == Method("POST", "json", "json", {422})
FileStrReplaceEditor == Method("POST", "json", "json", {422})
FileWatchList == Method("GET", "none", "json", {})
FileWatchCreate == Method("POST", "json", "json", {422})
FileWatchEvents == Method("GET", "none", "json", {422})
FileWatchPoll == Method("POST", "json", "json", {422})
FileWatchWait == Method("POST", "json", "json", {422})
FileWatchStop == Method("DELETE", "none", "json", {422})

FileMethods ==
    {FileReadFile, FileWriteFile, FileReplaceInFile, FileSearchInFile,
     FileFindFiles, FileGrepFiles, FileGlobFiles, FileUploadFile,
     FileDownloadFile, FileListPath, FileStrReplaceEditor, FileWatchList,
     FileWatchCreate, FileWatchEvents, FileWatchPoll, FileWatchWait,
     FileWatchStop}

-----------------------------------------------------------------------------
\* Jupyter: jupyter/client/Client.ts

JupyterExecuteCode == Method("POST", "json", "json", {422})
JupyterGetInfo == Method("GET", "none", "json", {})
JupyterListSessions == Method("GET", "none", "json", {})
JupyterDeleteSessions == Method("DELETE", "none", "json", {})
JupyterDeleteSession == Method("DELETE", "none", "json", {422})
JupyterCreateSession == Method("POST", "json", "json", {422})

JupyterMethods ==
    {JupyterExecuteCode, JupyterGetInfo, JupyterListSessions,
     JupyterDeleteSessions, JupyterDeleteSession, JupyterCreateSession}

-----------------------------------------------------------------------------
\* Mcp: mcp/client/Client.ts

McpListMcpTools == Method("GET", "none", "json", {422})
McpExecuteMcpTool == Method("POST", "json", "json", {422})
McpListMcpServers == Method("GET", "none", "json", {422})

McpMethods ==
    {McpListMcpTools, McpExecuteMcpTool, McpListMcpServers}

-----------------------------------------------------------------------------
\* Nodejs: nodejs/client/Client.ts

NodejsExecuteCode == Method("POST", "json", "json", {422})
NodejsGetInfo == Method("GET", "none", "json", {})
NodejsListSessions == Method("GET", "none", "json", {422})
NodejsCreateSession == Method("POST", "json", "json", {422})
NodejsGetSession == Method("GET", "none", "json", {422})
NodejsDeleteSession == Method("DELETE", "none", "json", {422})
NodejsUpdateSession == Method("PATCH", "json", "json", {422})

NodejsMethods ==
    {NodejsExecuteCode, NodejsGetInfo, NodejsListSessions,
     NodejsCreateSession, NodejsGetSession, NodejsDeleteSession,
     NodejsUpdateSession}

-----------------------------------------------------------------------------
\* Proxy: proxy/client/Client.ts

ProxyListMappings == Method("GET", "none", "json", {})
ProxyAddMapping == Method("POST", "json", "json", {422})
ProxyRemoveMapping == Method("DELETE", "none", "json", {422})
ProxyListExcludes == Method("GET", "none", "json", {})
ProxyAddExclude == Method("POST", "json", "json", {422})
ProxyRemoveExclude == Method("DELETE", "json", "json", {422})
ProxyDiagnose == Method("GET", "none", "json", {422})
ProxyHealth == Method("GET", "none", "json", {})
ProxyGetUpstream == Method("GET", "none", "json", {})
ProxySetUpstream == Method("PUT", "json", "json", {422})
ProxyRemoveUpstream == Method("DELETE", "none", "json", {})

ProxyMethods ==
    {ProxyListMappings, ProxyAddMapping, ProxyRemoveMapping,
     ProxyListExcludes, ProxyAddExclude, ProxyRemoveExclude,
     ProxyDiagnose, ProxyHealth, ProxyGetUpstream, ProxySetUpstream,
     ProxyRemoveUpstream}

-----------------------------------------------------------------------------
\* Sandbox: sandbox/client/Client.ts

SandboxGetContext == Method("GET", "none", "json", {})
SandboxGetPythonPackages == Method("GET", "none", "json", {})
SandboxGetNodejsPackages == Method("GET", "none", "json", {})
SandboxListHooks == Method("GET", "none", "json", {422})
SandboxRegisterHook == Method("POST", "json", "json", {422})
SandboxRemoveHook == Method("DELETE", "none", "json", {422})
SandboxObserveStatus == Method("GET", "none", "json", {})
SandboxObserveLive == Method("GET", "none", "json", {422})
SandboxObserveStart == Method("POST", "json", "json", {422})
SandboxObserveStop == Method("POST", "json", "json", {422})
SandboxObserveExport == Method("POST", "json", "json", {422})
SandboxObserveReports == Method("GET", "none", "json", {})
SandboxObserveReportDownload == Method("GET", "none", "binary", {422})
SandboxObserveReportDelete == Method("DELETE", "none", "json", {422})

SandboxMethods ==
    {SandboxGetContext, SandboxGetPythonPackages,
     SandboxGetNodejsPackages, SandboxListHooks, SandboxRegisterHook,
     SandboxRemoveHook, SandboxObserveStatus, SandboxObserveLive,
     SandboxObserveStart, SandboxObserveStop, SandboxObserveExport,
     SandboxObserveReports, SandboxObserveReportDownload,
     SandboxObserveReportDelete}

-----------------------------------------------------------------------------
\* Shell: shell/client/Client.ts

ShellExecCommand == Method("POST", "json", "json", {422})
ShellView == Method("POST", "json", "json", {422})
ShellWaitForProcess == Method("POST", "json", "json", {422})
ShellWriteToProcess == Method("POST", "json", "json", {422})
ShellKillProcess == Method("POST", "json", "json", {422})
ShellCreateSession == Method("POST", "json", "json", {422})
ShellUpdateSession == Method("POST", "json", "json", {422})
ShellGetTerminalUrl == Method("GET", "none", "json", {})
ShellGetSessionStats == Method("GET", "none", "json", {})
ShellListSessions == Method("GET", "none", "json", {})
ShellCleanupAllSessions == Method("DELETE", "none", "json", {})
ShellCleanupSession == Method("DELETE", "none", "json", {422})

ShellMethods ==
    {ShellExecCommand, ShellView, ShellWaitForProcess,
     ShellWriteToProcess, ShellKillProcess, ShellCreateSession,
     ShellUpdateSession, ShellGetTerminalUrl, ShellGetSessionStats,
     ShellListSessions, ShellCleanupAllSessions, ShellCleanupSession}

-----------------------------------------------------------------------------
\* Skills: skills/client/Client.ts

SkillsRegisterSkills == Method("POST", "form", "json", {422})
SkillsListMetadata == Method("GET", "none", "json", {422})
SkillsClearSkills == Method("DELETE", "none", "json", {})
SkillsDeleteSkill == Method("DELETE", "none", "json", {422})
SkillsGetContent == Method("GET", "none", "json", {422})

SkillsMethods ==
    {SkillsRegisterSkills, SkillsListMetadata, SkillsClearSkills,
     SkillsDeleteSkill, SkillsGetContent}

-----------------------------------------------------------------------------
\* Util: util/client/Client.ts

UtilConvertToMarkdown == Method("POST", "json", "json", {422})

UtilMethods ==
    {UtilConvertToMarkdown}

-----------------------------------------------------------------------------
\* Every method a SandboxClient offers, and the shapes they take: two methods
\* of one shape are one method to every property below.

AllMethods ==
    AuthMethods \cup BashMethods \cup BrowserMethods \cup
    BrowserCaptchaMethods \cup BrowserCookiesMethods \cup
    BrowserNetworkMethods \cup BrowserPageMethods \cup BrowserStateMethods
    \cup BrowserTabsMethods \cup CodeMethods \cup DisplayMethods \cup
    FileMethods \cup JupyterMethods \cup McpMethods \cup NodejsMethods
    \cup ProxyMethods \cup SandboxMethods \cup ShellMethods \cup
    SkillsMethods \cup UtilMethods

=============================================================================
