\* One tab and one request, the logout; a second pair for the refresh that answers it.
SPECIFICATION AuthSpec
CONSTANTS
    Tabs = {a}
    Calls = {x}
    MaxPairs = 2
INVARIANT LogoutBlacklists
CHECK_DEADLOCK FALSE
