SPECIFICATION RecoveryRerunSpec
CONSTANTS
    x1 = x1
    t1 = t1
    r1 = r1
    r2 = r2
    o1 = o1
    o2 = o2
    Runtimes = {r1, r2}
    Operators = {o1, o2}
    Tasks = {x1}
    Tenants = {t1}
    TenantOf <- OneTask
    Tokens = {1, 2, 3, 4, 5, 6, 7, 8, 9}
    Scenarios <- Interrupted
PROPERTY InterruptedRecoveryReruns
