SPECIFICATION BillSpec
CONSTANTS
    task = task
    chat = chat
    Unpriced = Unpriced
    Absent = Absent
    Runs = {task, chat}
    Chats = {chat}
    AgentOf <- MCAgents
    ProviderOf <- MCProviders
    Rates <- MCRates
    Answers <- MCAnswers
    Routed = {"routed"}
    BudgetIds = {"x", "y"}
    Settings <- MCSettings
    Length <- MCLength
    MaxCalls <- MCCalls
    MaxEdits = 1
    MaxDays = 1
INVARIANTS
    SpentMeansRefused
    BillsAreAccounted
CHECK_DEADLOCK FALSE
