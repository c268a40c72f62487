SPECIFICATION Spec
CONSTANTS
    Tasks = {t1, t2}
    MaxSales = 3
    DateOf <- MCDateOf
    DetailOf <- MCDetailOf
    MaxRows = 3
    Capacity = 1
    HistorySize = 1
    MonthOf <- MCMonthOf
    Months = 2
INVARIANTS
    OneRowPerSale
