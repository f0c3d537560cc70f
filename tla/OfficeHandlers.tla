------------------------------ MODULE OfficeHandlers ------------------------------
(***************************************************************************)
(* The HTTP handlers of the office side (people, services, documents,      *)
(* mailings, administration), each as what its store operation is when the *)
(* call comes a second time; see module Handlers. Handlers that stand      *)
(* together in the source and are about one resource are one definition,   *)
(* with their names above it.                                              *)
(***************************************************************************)
EXTENDS Calls

\* agenda
\* AgendaCreateEvent, AgendaListEvents
AgendaEvents(c) == Added(c, Announced) \/ Look(c)

\* hr
\* CreateLeave, ListLeaves, SetLeaveStatus
Leaves(c) == Added(c, Announced) \/ Look(c) \/ Changed(c, Silent)
\* CreateExpense, ListExpenses
Expenses(c) == Keyed(c, Announced) \/ Look(c)
\* CreateSalary, ListSalaries, SetSalaryStatus
Salaries(c) == Keyed(c, Announced) \/ Look(c) \/ Changed(c, Silent)
\* CreateEstablishment, ListEstablishments
Establishments(c) == Keyed(c, Announced) \/ Look(c)
\* HireEmployee, ListEmployees, GetEmployee, SetEmployeeStatus, TerminateEmployee
Employees(c) ==
  Keyed(c, Announced) \/ Look(c) \/ Changed(c, Silent) \/ Changed(c, Announced)
\* AddSkill, ListSkills
Skills(c) == Keyed(c, Silent) \/ Look(c)
\* AddEvaluation, ListEvaluations
Evaluations(c) == Keyed(c, Silent) \/ Look(c)
\* CreatePayrollRun, ListPayrollRuns, AddPayrollRunLine, ListPayrollRunLines
PayrollRuns(c) == Added(c, Announced) \/ Look(c) \/ Added(c, Silent)
PostPayrollRun(c) == Changed(c, Announced)

\* services
\* CreateProject, ListProjects, GetProject, SetProjectStatus
Projects(c) == Keyed(c, Announced) \/ Look(c) \/ Changed(c, Announced)
\* CreateTask, ListTasks, SetTaskStatus
Tasks(c) == Added(c, Announced) \/ Look(c) \/ Changed(c, Silent)
\* AddTime, TaskHours, ProjectHours
Times(c) == Added(c, Silent) \/ Computed(c)
\* CreateContract, SetContractStatus, ListContracts, ContractsOfOrg
Contracts(c) == Keyed(c, Announced) \/ Changed(c, Silent) \/ Look(c)
\* CreateIntervention, ListInterventions, SetInterventionStatus
Interventions(c) == Keyed(c, Announced) \/ Look(c) \/ Changed(c, Silent)
\* CreateTicket, ServicesListTickets, ServicesGetTicket, SetTicketStatus
ServicesTickets(c) == Keyed(c, Announced) \/ Look(c) \/ Changed(c, Silent)
\* AddMessage, ListMessages
Messages(c) == Added(c, Silent) \/ Look(c)

\* datapolicy
\* UpsertRule, DatapolicyListRules, DryRun
DatapolicyRules(c) == Put(c, Silent) \/ Look(c) \/ Computed(c)
\* RequestErasure, ListErasures, CompleteErasure
Erasures(c) == Added(c, Announced) \/ Look(c) \/ Moved(c, Announced)

\* quickmemo
\* QuickmemoCreate, QuickmemoList, QuickmemoGet, QuickmemoUpdate, QuickmemoDelete
Quickmemos(c) ==
  Added(c, Announced) \/ Look(c) \/ Changed(c, Announced) \/ Removed(c, Announced)

\* label
\* CreateSheet, ListSheets, GetSheet, UpdateSheet, DeleteSheet
Sheets(c) == Keyed(c, Announced) \/ Look(c) \/ Changed(c, Silent) \/ Removed(c, Silent)
LabelPDF(c) == Computed(c)

\* kb
\* CreateArticle, ListArticles, UpdateArticle, SetArticleStatus, KbSearch
Articles(c) == Keyed(c, Silent) \/ Look(c) \/ Changed(c, Silent) \/ Changed(c, Announced)

\* documentsvc
\* CreateFolder, ListFolders, FolderPath, MoveFolder
Folders(c) == Keyed(c, Silent) \/ Look(c) \/ Computed(c) \/ Overwritten(c, Silent)
\* Versions, Restore
DocumentVersions(c) == Look(c) \/ Added(c, Silent)
\* DocumentSearch, ListFilingRules, UpsertFilingRule
FilingRules(c) == Look(c) \/ Put(c, Silent)
\* Upload, DocumentList, Download
Documents(c) == Added(c, Silent) \/ Look(c) \/ Computed(c)
Share(c) == Added(c, Silent)

\* survey
\* CreateSurvey, ListSurveys, SetSurveyStatus
Surveys(c) == Added(c, Announced) \/ Look(c) \/ Changed(c, Silent)
\* AddQuestion, ListQuestions, AddOption, ListOptions
Questions(c) == Added(c, Silent) \/ Look(c)
\* CastVote, Results
Votes(c) == Put(c, Silent) \/ Computed(c)

\* mailing
\* CreateCampaign, ListCampaigns, GetCampaign
Campaigns(c) == Added(c, Silent) \/ Look(c)
ListRecipients(c) == Look(c)
Unsubscribe(c) == Put(c, Silent)

\* partners
\* CreateOrg, ListOrgs, GetOrg, UpdateOrg
Orgs(c) == Keyed(c, Announced) \/ Look(c) \/ Changed(c, Announced)
\* CreateContact, ListContacts
Contacts(c) == Added(c, Announced) \/ Look(c)
CreateCategory(c) == Keyed(c, Silent)

\* portal
\* MintToken, RevokeToken
Tokens(c) == Added(c, Silent) \/ Moved(c, Silent)
\* ListInvoices, GetInvoice
Invoices(c) == Look(c)
\* ListQuotes, AcceptQuote
Quotes(c) == Look(c) \/ Moved(c, Announced)
\* PortalListTickets, PortalGetTicket, OpenTicket
PortalTickets(c) == Look(c) \/ Added(c, Announced)

\* identity
Me(c) == Computed(c)
\* ListUsers, ListGroups
Userlists(c) == Look(c)
\* UpdateUser, CreateUser, GetUser
Users(c) == Changed(c, Silent) \/ Keyed(c, Silent) \/ Look(c)
\* CreateGroup, AddMember
Groups(c) == Keyed(c, Silent) \/ Put(c, Silent)
Grant(c) == Put(c, Silent)

\* collab
\* CollabAdd, CollabList, CollabRemove
Collabs(c) == Added(c, Announced) \/ Look(c) \/ Removed(c, Announced)

\* ai
\* Assist, AiListRuns
AiRuns(c) == Added(c, Announced) \/ Look(c)

\* platform/cron
\* ListDue, CronListRuns, CronUpsert
Jobs(c) == Look(c) \/ Put(c, Silent)

\* platform/module
ModuleList(c) == Look(c)

\* platform/dict
\* ListDictionaries, ListEntries
Dictionaries(c) == Look(c)

\* modulebuilder
\* Scaffold, ValidateManifest
Manifests(c) == Computed(c)
\* Install, Uninstall, ModuleBuilderList
Modules(c) == Put(c, Announced) \/ Look(c)

\* ldap
LdapStatus(c) == Computed(c)
LdapList(c) == Look(c)

\* inbound
\* UpsertMailbox, ListMailboxes
Mailboxes(c) == Put(c, Silent) \/ Look(c)
Receive(c) == Added(c, Announced)

\* website
\* WebsiteList, WebsiteGet, Sitemap
Pages(c) == Look(c) \/ Computed(c)

\* bookmark
\* BookmarkAdd, Toggle, BookmarkList, BookmarkRemove
Bookmarks(c) ==
  Keyed(c, Announced) \/ Toggled(c, Announced) \/ Look(c) \/ Removed(c, Silent)

\* platform/locale
LocaleList(c) == Computed(c)
LocaleGet(c) == Computed(c)
-----------------------------------------------------------------------------
OfficeCalls(c) ==
  \/ AgendaEvents(c) \/ Leaves(c) \/ Expenses(c) \/ Salaries(c) \/ Establishments(c)
  \/ Employees(c) \/ Skills(c) \/ Evaluations(c) \/ PayrollRuns(c) \/ PostPayrollRun(c)
  \/ Projects(c) \/ Tasks(c) \/ Times(c) \/ Contracts(c) \/ Interventions(c)
  \/ ServicesTickets(c) \/ Messages(c) \/ DatapolicyRules(c) \/ Erasures(c)
  \/ Quickmemos(c) \/ Sheets(c) \/ LabelPDF(c) \/ Articles(c) \/ Folders(c)
  \/ DocumentVersions(c) \/ FilingRules(c) \/ Documents(c) \/ Share(c) \/ Surveys(c)
  \/ Questions(c) \/ Votes(c) \/ Campaigns(c) \/ ListRecipients(c) \/ Unsubscribe(c)
  \/ Orgs(c) \/ Contacts(c) \/ CreateCategory(c) \/ Tokens(c) \/ Invoices(c) \/ Quotes(c)
  \/ PortalTickets(c) \/ Me(c) \/ Userlists(c) \/ Users(c) \/ Groups(c) \/ Grant(c)
  \/ Collabs(c) \/ AiRuns(c) \/ Jobs(c) \/ ModuleList(c) \/ Dictionaries(c) \/ Manifests(c)
  \/ Modules(c) \/ LdapStatus(c) \/ LdapList(c) \/ Mailboxes(c) \/ Receive(c) \/ Pages(c)
  \/ Bookmarks(c) \/ LocaleList(c) \/ LocaleGet(c)
=============================================================================
