------------------------- MODULE SandboxErrorTypes -------------------------
(***************************************************************************)
(* The error type of each endpoint method of the JavaScript SDK: a union   *)
(* of the statuses the method has a type for and of _Unknown, a            *)
(* constructor for each of them, and _visit, by which a caller takes an    *)
(* error apart.  A definition names the statuses of one such type; the     *)
(* method that builds the errors is the one of the same name in            *)
(* SandboxEndpoints, in a file of its own.                                 *)
(***************************************************************************)
EXTENDS Naturals, SandboxEndpoints

Other == 0  \* the status of an _Unknown, and the branch _other

\* _visit: the branch of the caller that an error with this status comes to.
Visit(error, statusCode) == IF statusCode \in error THEN statusCode ELSE Other

-----------------------------------------------------------------------------
\* Auth: auth/client/

AuthCreateTicketError == {}
AuthAuthenticateError == {}

AuthErrors ==
    {<<AuthCreateTicket, AuthCreateTicketError>>,
     <<AuthAuthenticate, AuthAuthenticateError>>}

-----------------------------------------------------------------------------
\* Bash: bash/client/

BashExecError == {422}
BashOutputError == {422}
BashWriteError == {422}
BashKillError == {422}
BashSessionsError == {}
BashCreateSessionError == {422}
BashCloseSessionError == {422}

BashErrors ==
    {<<BashExec, BashExecError>>, <<BashOutput, BashOutputError>>,
     <<BashWrite, BashWriteError>>, <<BashKill, BashKillError>>,
     <<BashSessions, BashSessionsError>>,
     <<BashCreateSession, BashCreateSessionError>>,
     <<BashCloseSession, BashCloseSessionError>>}

-----------------------------------------------------------------------------
\* Browser: browser/client/

BrowserGetInfoError == {}
BrowserScreenshotError == {422}
BrowserExecuteActionError == {422}
BrowserSetConfigError == {422}
BrowserRestartError == {422}
BrowserGetProxyPacError == {}

BrowserErrors ==
    {<<BrowserGetInfo, BrowserGetInfoError>>,
     <<BrowserScreenshot, BrowserScreenshotError>>,
     <<BrowserExecuteAction, BrowserExecuteActionError>>,
     <<BrowserSetConfig, BrowserSetConfigError>>,
     <<BrowserRestart, BrowserRestartError>>,
     <<BrowserGetProxyPac, BrowserGetProxyPacError>>}

-----------------------------------------------------------------------------
\* BrowserCaptcha: browserCaptcha/client/

BrowserCaptchaDetectError == {}
BrowserCaptchaWaitError == {422}

BrowserCaptchaErrors ==
    {<<BrowserCaptchaDetect, BrowserCaptchaDetectError>>,
     <<BrowserCaptchaWait, BrowserCaptchaWaitError>>}

-----------------------------------------------------------------------------
\* BrowserCookies: browserCookies/client/

BrowserCookiesGetCookiesError == {422}
BrowserCookiesSetCookiesError == {422}
BrowserCookiesClearCookiesError == {}

BrowserCookiesErrors ==
    {<<BrowserCookiesGetCookies, BrowserCookiesGetCookiesError>>,
     <<BrowserCookiesSetCookies, BrowserCookiesSetCookiesError>>,
     <<BrowserCookiesClearCookies, BrowserCookiesClearCookiesError>>}

-----------------------------------------------------------------------------
\* BrowserNetwork: browserNetwork/client/

BrowserNetworkSetHeadersError == {422}
BrowserNetworkSetScopedHeadersError == {422}
BrowserNetworkAddRouteError == {422}
BrowserNetworkRemoveRouteError == {422}
BrowserNetworkGetRequestsError == {422}
BrowserNetworkExportHarError == {422}

BrowserNetworkErrors ==
    {<<BrowserNetworkSetHeaders, BrowserNetworkSetHeadersError>>,
     <<BrowserNetworkSetScopedHeaders, BrowserNetworkSetScopedHeadersError>>,
     <<BrowserNetworkAddRoute, BrowserNetworkAddRouteError>>,
     <<BrowserNetworkRemoveRoute, BrowserNetworkRemoveRouteError>>,
     <<BrowserNetworkGetRequests, BrowserNetworkGetRequestsError>>,
     <<BrowserNetworkExportHar, BrowserNetworkExportHarError>>}

-----------------------------------------------------------------------------
\* BrowserPage: browserPage/client/

BrowserPageNavigateError == {422}
BrowserPageBackError == {}
BrowserPageForwardError == {}
BrowserPageReloadError == {}
BrowserPageClickError == {422}
BrowserPageFillError == {422}
BrowserPageTypeTextError == {422}
BrowserPagePressKeyError == {422}
BrowserPageHotKeyError == {422}
BrowserPageHoverError == {422}
BrowserPageSelectOptionError == {422}
BrowserPageCheckError == {422}
BrowserPageUncheckError == {422}
BrowserPageUploadFileError == {422}
BrowserPageFillFormError == {422}
BrowserPageScrollError == {422}
BrowserPageScrollToError == {422}
BrowserPageScrollToElementError == {422}
BrowserPageScreenshotError == {422}
BrowserPageRecordError == {422}
BrowserPageGetHtmlError == {422}
BrowserPageGetTextError == {}
BrowserPageGetMarkdownError == {}
BrowserPageGetElementsError == {}
BrowserPageGetConsoleError == {422}
BrowserPageExportConsoleError == {422}
BrowserPageEvaluateError == {422}
BrowserPageFindTextError == {422}
BrowserPageWaitError == {422}

BrowserPageErrors ==
    {<<BrowserPageNavigate, BrowserPageNavigateError>>,
     <<BrowserPageBack, BrowserPageBackError>>,
     <<BrowserPageForward, BrowserPageForwardError>>,
     <<BrowserPageReload, BrowserPageReloadError>>,
     <<BrowserPageClick, BrowserPageClickError>>,
     <<BrowserPageFill, BrowserPageFillError>>,
     <<BrowserPageTypeText, BrowserPageTypeTextError>>,
     <<BrowserPagePressKey, BrowserPagePressKeyError>>,
     <<BrowserPageHotKey, BrowserPageHotKeyError>>,
     <<BrowserPageHover, BrowserPageHoverError>>,
     <<BrowserPageSelectOption, BrowserPageSelectOptionError>>,
     <<BrowserPageCheck, BrowserPageCheckError>>,
     <<BrowserPageUncheck, BrowserPageUncheckError>>,
     <<BrowserPageUploadFile, BrowserPageUploadFileError>>,
     <<BrowserPageFillForm, BrowserPageFillFormError>>,
     <<BrowserPageScroll, BrowserPageScrollError>>,
     <<BrowserPageScrollTo, BrowserPageScrollToError>>,
     <<BrowserPageScrollToElement, BrowserPageScrollToElementError>>,
     <<BrowserPageScreenshot, BrowserPageScreenshotError>>,
     <<BrowserPageRecord, BrowserPageRecordError>>,
     <<BrowserPageGetHtml, BrowserPageGetHtmlError>>,
     <<BrowserPageGetText, BrowserPageGetTextError>>,
     <<BrowserPageGetMarkdown, BrowserPageGetMarkdownError>>,
     <<BrowserPageGetElements, BrowserPageGetElementsError>>,
     <<BrowserPageGetConsole, BrowserPageGetConsoleError>>,
     <<BrowserPageExportConsole, BrowserPageExportConsoleError>>,
     <<BrowserPageEvaluate, BrowserPageEvaluateError>>,
     <<BrowserPageFindText, BrowserPageFindTextError>>,
     <<BrowserPageWait, BrowserPageWaitError>>}

-----------------------------------------------------------------------------
\* BrowserState: browserState/client/

BrowserStateSaveError == {422}
BrowserStateLoadError == {422}

BrowserStateErrors ==
    {<<BrowserStateSave, BrowserStateSaveError>>,
     <<BrowserStateLoad, BrowserStateLoadError>>}

-----------------------------------------------------------------------------
\* BrowserTabs: browserTabs/client/

BrowserTabsListError == {}
BrowserTabsCreateError == {422}
BrowserTabsCloseError == {422}
BrowserTabsActivateError == {422}

BrowserTabsErrors ==
    {<<BrowserTabsList, BrowserTabsListError>>,
     <<BrowserTabsCreate, BrowserTabsCreateError>>,
     <<BrowserTabsClose, BrowserTabsCloseError>>,
     <<BrowserTabsActivate, BrowserTabsActivateError>>}

-----------------------------------------------------------------------------
\* Code: code/client/

CodeExecuteCodeError == {422}
CodeGetInfoError == {}

CodeErrors ==
    {<<CodeExecuteCode, CodeExecuteCodeError>>,
     <<CodeGetInfo, CodeGetInfoError>>}

-----------------------------------------------------------------------------
\* Display: display/client/

DisplayRecordError == {422}

DisplayErrors ==
    {<<DisplayRecord, DisplayRecordError>>}

-----------------------------------------------------------------------------
\* File: file/client/

FileReadFileError == {422}
FileWriteFileError == {422}
FileReplaceInFileError == {422}
FileSearchInFileError == {422}
FileFindFilesError == {422}
FileGrepFilesError == {422}
FileGlobFilesError == {422}
FileUploadFileError == {422}
FileDownloadFileError == {409, 422}
FileListPathError == {422}
FileStrReplaceEditorError == {422}
FileWatchListError == {}
FileWatchCreateError == {422}
FileWatchEventsError == {422}
FileWatchPollError == {422}
FileWatchWaitError == {422}
FileWatchStopError == {422}

FileErrors ==
    {<<FileReadFile, FileReadFileError>>,
     <<FileWriteFile, FileWriteFileError>>,
     <<FileReplaceInFile, FileReplaceInFileError>>,
     <<FileSearchInFile, FileSearchInFileError>>,
     <<FileFindFiles, FileFindFilesError>>,
     <<FileGrepFiles, FileGrepFilesError>>,
     <<FileGlobFiles, FileGlobFilesError>>,
     <<FileUploadFile, FileUploadFileError>>,
     <<FileDownloadFile, FileDownloadFileError>>,
     <<FileListPath, FileListPathError>>,
     <<FileStrReplaceEditor, FileStrReplaceEditorError>>,
     <<FileWatchList, FileWatchListError>>,
     <<FileWatchCreate, FileWatchCreateError>>,
     <<FileWatchEvents, FileWatchEventsError>>,
     <<FileWatchPoll, FileWatchPollError>>,
     <<FileWatchWait, FileWatchWaitError>>,
     <<FileWatchStop, FileWatchStopError>>}

-----------------------------------------------------------------------------
\* Jupyter: jupyter/client/

JupyterExecuteCodeError == {422}
JupyterGetInfoError == {}
JupyterListSessionsError == {}
JupyterDeleteSessionsError == {}
JupyterDeleteSessionError == {422}
JupyterCreateSessionError == {422}

JupyterErrors ==
    {<<JupyterExecuteCode, JupyterExecuteCodeError>>,
     <<JupyterGetInfo, JupyterGetInfoError>>,
     <<JupyterListSessions, JupyterListSessionsError>>,
     <<JupyterDeleteSessions, JupyterDeleteSessionsError>>,
     <<JupyterDeleteSession, JupyterDeleteSessionError>>,
     <<JupyterCreateSession, JupyterCreateSessionError>>}

-----------------------------------------------------------------------------
\* Mcp: mcp/client/

McpListMcpToolsError == {422}
McpExecuteMcpToolError == {422}
McpListMcpServersError == {422}

McpErrors ==
    {<<McpListMcpTools, McpListMcpToolsError>>,
     <<McpExecuteMcpTool, McpExecuteMcpToolError>>,
     <<McpListMcpServers, McpListMcpServersError>>}

-----------------------------------------------------------------------------
\* Nodejs: nodejs/client/

NodejsExecuteCodeError == {422}
NodejsGetInfoError == {}
NodejsListSessionsError == {422}
NodejsCreateSessionError == {422}
NodejsGetSessionError == {422}
NodejsDeleteSessionError == {422}
NodejsUpdateSessionError == {422}

NodejsErrors ==
    {<<NodejsExecuteCode, NodejsExecuteCodeError>>,
     <<NodejsGetInfo, NodejsGetInfoError>>,
     <<NodejsListSessions, NodejsListSessionsError>>,
     <<NodejsCreateSession, NodejsCreateSessionError>>,
     <<NodejsGetSession, NodejsGetSessionError>>,
     <<NodejsDeleteSession, NodejsDeleteSessionError>>,
     <<NodejsUpdateSession, NodejsUpdateSessionError>>}

-----------------------------------------------------------------------------
\* Proxy: proxy/client/

ProxyListMappingsError == {}
ProxyAddMappingError == {422}
ProxyRemoveMappingError == {422}
ProxyListExcludesError == {}
ProxyAddExcludeError == {422}
ProxyRemoveExcludeError == {422}
ProxyDiagnoseError == {422}
ProxyHealthError == {}
ProxyGetUpstreamError == {}
ProxySetUpstreamError == {422}
ProxyRemoveUpstreamError == {}

ProxyErrors ==
    {<<ProxyListMappings, ProxyListMappingsError>>,
     <<ProxyAddMapping, ProxyAddMappingError>>,
     <<ProxyRemoveMapping, ProxyRemoveMappingError>>,
     <<ProxyListExcludes, ProxyListExcludesError>>,
     <<ProxyAddExclude, ProxyAddExcludeError>>,
     <<ProxyRemoveExclude, ProxyRemoveExcludeError>>,
     <<ProxyDiagnose, ProxyDiagnoseError>>,
     <<ProxyHealth, ProxyHealthError>>,
     <<ProxyGetUpstream, ProxyGetUpstreamError>>,
     <<ProxySetUpstream, ProxySetUpstreamError>>,
     <<ProxyRemoveUpstream, ProxyRemoveUpstreamError>>}

-----------------------------------------------------------------------------
\* Sandbox: sandbox/client/

SandboxGetContextError == {}
SandboxGetPythonPackagesError == {}
SandboxGetNodejsPackagesError == {}
SandboxListHooksError == {422}
SandboxRegisterHookError == {422}
SandboxRemoveHookError == {422}
SandboxObserveStatusError == {}
SandboxObserveLiveError == {422}
SandboxObserveStartError == {422}
SandboxObserveStopError == {422}
SandboxObserveExportError == {422}
SandboxObserveReportsError == {}
SandboxObserveReportDownloadError == {422}
SandboxObserveReportDeleteError == {422}

SandboxErrors ==
    {<<SandboxGetContext, SandboxGetContextError>>,
     <<SandboxGetPythonPackages, SandboxGetPythonPackagesError>>,
     <<SandboxGetNodejsPackages, SandboxGetNodejsPackagesError>>,
     <<SandboxListHooks, SandboxListHooksError>>,
     <<SandboxRegisterHook, SandboxRegisterHookError>>,
     <<SandboxRemoveHook, SandboxRemoveHookError>>,
     <<SandboxObserveStatus, SandboxObserveStatusError>>,
     <<SandboxObserveLive, SandboxObserveLiveError>>,
     <<SandboxObserveStart, SandboxObserveStartError>>,
     <<SandboxObserveStop, SandboxObserveStopError>>,
     <<SandboxObserveExport, SandboxObserveExportError>>,
     <<SandboxObserveReports, SandboxObserveReportsError>>,
     <<SandboxObserveReportDownload, SandboxObserveReportDownloadError>>,
     <<SandboxObserveReportDelete, SandboxObserveReportDeleteError>>}

-----------------------------------------------------------------------------
\* Shell: shell/client/

ShellExecCommandError == {422}
ShellViewError == {422}
ShellWaitForProcessError == {422}
ShellWriteToProcessError == {422}
ShellKillProcessError == {422}
ShellCreateSessionError == {422}
ShellUpdateSessionError == {422}
ShellGetTerminalUrlError == {}
ShellGetSessionStatsError == {}
ShellListSessionsError == {}
ShellCleanupAllSessionsError == {}
ShellCleanupSessionError == {422}

ShellErrors ==
    {<<ShellExecCommand, ShellExecCommandError>>,
     <<ShellView, ShellViewError>>,
     <<ShellWaitForProcess, ShellWaitForProcessError>>,
     <<ShellWriteToProcess, ShellWriteToProcessError>>,
     <<ShellKillProcess, ShellKillProcessError>>,
     <<ShellCreateSession, ShellCreateSessionError>>,
     <<ShellUpdateSession, ShellUpdateSessionError>>,
     <<ShellGetTerminalUrl, ShellGetTerminalUrlError>>,
     <<ShellGetSessionStats, ShellGetSessionStatsError>>,
     <<ShellListSessions, ShellListSessionsError>>,
     <<ShellCleanupAllSessions, ShellCleanupAllSessionsError>>,
     <<ShellCleanupSession, ShellCleanupSessionError>>}

-----------------------------------------------------------------------------
\* Skills: skills/client/

SkillsRegisterSkillsError == {422}
SkillsListMetadataError == {422}
SkillsClearSkillsError == {}
SkillsDeleteSkillError == {422}
SkillsGetContentError == {422}

SkillsErrors ==
    {<<SkillsRegisterSkills, SkillsRegisterSkillsError>>,
     <<SkillsListMetadata, SkillsListMetadataError>>,
     <<SkillsClearSkills, SkillsClearSkillsError>>,
     <<SkillsDeleteSkill, SkillsDeleteSkillError>>,
     <<SkillsGetContent, SkillsGetContentError>>}

-----------------------------------------------------------------------------
\* Util: util/client/

UtilConvertToMarkdownError == {422}

UtilErrors ==
    {<<UtilConvertToMarkdown, UtilConvertToMarkdownError>>}

-----------------------------------------------------------------------------
\* The methods of a SandboxClient, each with its error type.
AllErrors ==
    AuthErrors \cup BashErrors \cup BrowserErrors \cup BrowserCaptchaErrors
    \cup BrowserCookiesErrors \cup BrowserNetworkErrors \cup
    BrowserPageErrors \cup BrowserStateErrors \cup BrowserTabsErrors \cup
    CodeErrors \cup DisplayErrors \cup FileErrors \cup JupyterErrors \cup
    McpErrors \cup NodejsErrors \cup ProxyErrors \cup SandboxErrors \cup
    ShellErrors \cup SkillsErrors \cup UtilErrors

\* An error that a method has a type for comes to the branch its caller has for it,
\* and nothing else does: the switches in the clients and the types they build,
\* which stand in 140 pairs of files, name the same statuses.
ASSUME ErrorsMeetTheirBranch ==
    \A pair \in AllErrors, statusCode \in {409, 422} :
        statusCode \in pair[1].typed <=> Visit(pair[2], statusCode) = statusCode

=============================================================================
